---- MODULE Spec2Model ----
(***************************************************************************)
(* Knowledge-base job lifecycle of grand_spider_knowledge.py: the job      *)
(* registry `jobs` guarded by `jobs_lock`, the background worker           *)
(* run_knowledge_base_job, the submission endpoint and the status poll.    *)
(*                                                                         *)
(* Strings are modelled by what the code reads of them: an identity and a  *)
(* length ([id, len]); None is a value of its own.  A `with jobs_lock:`    *)
(* block is one action per statement that changes the registry: the first  *)
(* acquires the lock, the last releases it.                                *)
(***************************************************************************)
EXTENDS Integers, Sequences, FiniteSets, TLC

\* ---------------------------------------------------------------- bounds
MaxPagesInput == 2      \* largest max_pages a request asks for
MaxReply == 2           \* longest URL list the selection collaborator returns
MaxKbLen == 1001        \* longest compiled knowledge base, in characters
MaxCrawlBudget == 2     \* largest max_pages_to_discover a crawl is called with
MaxLinks == 2           \* most links a fetched page carries

\* ------------------------------------------------------- program constants
MAX_PAGES_FOR_KB_GENERATION == 15
MIN_DISCOVERED_PAGES_BEFORE_FALLBACK_CRAWL == 20
StatusPreviewChars == 1000
MAX_URLS_FROM_SITEMAP_TO_PROCESS_TITLES == 200
MAX_TITLE_FETCH_THREADS == 5
FrontierSlack == 50
DEFAULT_TARGET_LANGUAGE == "English"

\* ------------------------------------------------------------ input sets
JobIds == {"j1"}
BaseUrl == "root"
Urls == {"root", "about"}
ProbeCandidate == "about"
OutsideUrl == "outside"
\* further pages a large sitemap lists, all of them or none: one fewer than the
\* fallback threshold, so that the count falls on either side of it
MorePages == {"p01", "p02", "p03", "p04", "p05", "p06", "p07", "p08", "p09", "p10",
              "p11", "p12", "p13", "p14", "p15", "p16", "p17", "p18", "p19"}
SitemapResults == SUBSET Urls \cup {some \cup MorePages : some \in SUBSET Urls}
Languages == {"English", "Farsi"}
\* what language detection answers for a main page that could be fetched
DetectedLanguages == {"Farsi"}
\* max_pages of a request: negative, zero, or the largest asked for
MaxPagesInputs == {-1, 0, MaxPagesInput}

\* ---------------------------------------------------------------- strings
NoneT == [id |-> "None", len |-> 0]
EmptyStr == [id |-> "", len |-> 0]
Str(i, n) == IF n = 0 THEN EmptyStr ELSE [id |-> i, len |-> n]
\* Python truthiness of an optional string: None and "" are falsy
Truthy(t) == t.len > 0
\* s[:n] for n >= 0
Prefix(t, n) == IF t.len <= n THEN t ELSE [id |-> t.id, len |-> n]
\* str.strip() of a collaborator reply with `pad` blank characters around it
Strip(c) == Str(c.id, c.len - c.pad)
LangLen(l) == IF l = "English" THEN 7 ELSE 5
Min(a, b) == IF a < b THEN a ELSE b
Max(a, b) == IF a > b THEN a ELSE b
Range(s) == {s[k] : k \in 1..Len(s)}
Last(s) == s[Len(s)]
\* s[:n] of a list, n of either sign
PySliceTo(s, n) == IF n >= 0 THEN SubSeq(s, 1, Min(n, Len(s)))
                   ELSE SubSeq(s, 1, Max(Len(s) + n, 0))

MsgNoPagesDiscovered == Str("Could not generate KB: Discovery phase found no pages.", 54)
MsgNoPagesSelected(l) == Str("Could not generate KB: AI selected no relevant pages.", 59 + LangLen(l))
MsgNoPagesExtracted(l) == Str("Could not generate KB: Failed to extract from any pages.", 62 + LangLen(l))
MsgContentTooLarge(l) == Str("Error: Could not compile KB. Combined content too large.", 60 + LangLen(l))
MsgUnknownError == Str("Unknown error", 13)
\* str(e) of an exception that reaches the job's handler
ExcMessages == {EmptyStr, Str("exception message", 30)}
MsgCompilationFailed == Str("KB compilation failed", 30)

VARIABLES jobs, jobs_lock, pc, w, poll, statusLog, calls, crawl, resolver,
          discovery, titles, norm, heard, submit, probe

vars == <<jobs, jobs_lock, pc, w, poll, statusLog, calls, crawl, resolver,
          discovery, titles, norm, heard, submit, probe>>

\* ---------------------------------------------------------------- registry
Rank(s) == CASE s = "pending" -> 0
             [] s \in {"detecting_language", "discovering_pages"} -> 1
             [] s = "selecting_pages" -> 2
             [] s = "extracting_knowledge" -> 3
             [] s = "compiling_kb" -> 4
             [] s \in {"completed", "failed"} -> 5

Terminal == {"completed", "failed"}

\* a progress phrase and the number it mentions
Progress(text, n) == [text |-> text, n |-> n]

\* dict.update: the fields of upd replace those of rec
Update(rec, upd) == [f \in DOMAIN rec |-> IF f \in DOMAIN upd THEN upd[f] ELSE rec[f]]

job_details(j, max_pages_input, use_selenium) ==
    [id |-> j,
     requested_max_pages_to_process |-> max_pages_input,
     effective_max_pages_for_kb |-> Min(max_pages_input, MAX_PAGES_FOR_KB_GENERATION),
     use_selenium |-> use_selenium,
     status |-> "pending",
     progress |-> Progress("Job accepted, pending start.", 0),
     crawler_used |-> "None",
     initial_found_pages_count |-> 0,
     detected_target_language |-> "None",
     pages_selected_for_kb_count |-> 0,
     pages_selected_for_kb_details |-> <<>>,
     knowledge_extraction_details |-> <<>>,
     intermediate_knowledge_chunks_count |-> 0,
     final_knowledge_base |-> NoneT,
     error |-> NoneT,
     started_at |-> FALSE,
     finished_at |-> FALSE,
     total_prompt_tokens |-> 0,
     total_completion_tokens |-> 0]

NoPages == [u \in {} |-> 0]
\* a page record; a title that could not be read is "N/A", html not kept is "none"
Page(u, title, status, html) ==
    [url |-> u, title |-> title, status |-> status, html_source |-> html]

\* locals of run_knowledge_base_job as its first statements set them
WorkerLocals(max_pages, use_selenium) ==
    [max_pages_for_kb_processing |-> max_pages,
     use_selenium |-> use_selenium,
     target_language |-> DEFAULT_TARGET_LANGUAGE,
     all_discovered_pages_map |-> NoPages,
     selected_pages_for_processing_info |-> <<>>,
     extracted_knowledge_chunks |-> <<>>,
     final_knowledge_base |-> NoneT,
     job_failed |-> FALSE,
     error_message |-> NoneT,
     total_prompt_tokens |-> 0,
     total_completion_tokens |-> 0,
     i |-> 0,
     extraction_status_update |-> [url |-> "None", status |-> "None", error |-> "None"]]

Started == DOMAIN jobs

\* the update lands in every entry of the registry
WriteJob_WritesEveryJob(j, upd) ==
    /\ jobs' = [k \in DOMAIN jobs |-> Update(jobs[k], upd)]
    /\ statusLog' = IF "status" \in DOMAIN upd
                    THEN [statusLog EXCEPT ![j] = Append(@, upd.status)]
                    ELSE statusLog

\* jobs[j].update(upd) by the worker of j, with the write recorded when it sets status
WriteJob(j, upd) ==
    /\ jobs' = [jobs EXCEPT ![j] = Update(jobs[j], upd)]
    /\ statusLog' = IF "status" \in DOMAIN upd
                    THEN [statusLog EXCEPT ![j] = Append(@, upd.status)]
                    ELSE statusLog

\* with jobs_lock: one statement
Locked1(j) == jobs_lock = "free" /\ UNCHANGED jobs_lock
\* with jobs_lock: first statement of several
LockedFirst(j) == jobs_lock = "free" /\ jobs_lock' = j
\* a statement inside the block
LockedMid(j) == jobs_lock = j /\ UNCHANGED jobs_lock
\* variant: the block's end does not release the lock
LockedLast_KeepsLock(j) == jobs_lock = j /\ UNCHANGED jobs_lock

\* the last statement of the block
LockedLast(j) == jobs_lock = j /\ jobs_lock' = "free"

\* the worker of j calls a collaborator with these chunks; the call returns or raises
\* the tokens a call returned: <<prompt_tokens, completion_tokens>>
NoUsage == <<0, 0>>
CallRecord(fn, raised, chunks, usage) ==
    [fn |-> fn, raised |-> raised, chunks |-> chunks, usage |-> usage]
Recorded(j, records) == calls' = [calls EXCEPT ![j] = @ \o records]
Called(j, fn, raised, chunks) == Recorded(j, <<CallRecord(fn, raised, chunks, NoUsage)>>)

\* what the collaborators return as prompt and completion tokens: the prompt's
\* token count and the reply's usage (lines 373-386, 438-448, 497-507, 538-554)
DetectUsage == <<1, 1>>
SelectUsage(reply) == IF reply.kind = "list" THEN <<4, 2>> ELSE <<4, 3>>
ExtractUsage == <<16, 8>>
CompileUsage(outcome) == IF outcome.kind = "content" THEN <<64, 32>> ELSE <<64, 0>>

\* lines 583, 625, 661, 679: the tokens of a call that returned join the totals
TotalsAfter(locals, usage) ==
    [total_prompt_tokens |-> locals.total_prompt_tokens + usage[1],
     total_completion_tokens |-> locals.total_completion_tokens + usage[2]]

Goto(j, label) == pc' = [pc EXCEPT ![j] = label]
SetW(j, upd) == w' = [w EXCEPT ![j] = Update(w[j], upd)]

\* the status poll's handler between two requests: no record looked up, no copy held
PollIdle == [pc |-> "idle", job |-> "None", job_copy |-> NoPages, shares_details |-> FALSE]

\* no crawl and no sitemap resolution is being followed step by step
CrawlOff == [pc |-> "off"]
ResolverOff == [pc |-> "off"]
DiscoveryOff == [pc |-> "off"]
TitlesOff == [pc |-> "off"]
NormOff == [pc |-> "off"]
HeardOff == [pc |-> "off"]
SubmitOff == [pc |-> "off"]
ProbeOff == [pc |-> "off"]

\* the service after start-up: an empty registry (line 113)
JobInit ==
    /\ jobs = [k \in {} |-> 0]
    /\ jobs_lock = "free"
    /\ pc = [j \in JobIds |-> "none"]
    /\ w = [j \in JobIds |-> WorkerLocals(0, FALSE)]
    /\ poll = PollIdle
    /\ statusLog = [j \in JobIds |-> <<>>]
    /\ calls = [j \in JobIds |-> <<>>]
    /\ heard = HeardOff
    /\ submit = SubmitOff

Init ==
    /\ JobInit
    /\ probe = ProbeOff
    /\ crawl = CrawlOff
    /\ resolver = ResolverOff
    /\ discovery = DiscoveryOff
    /\ titles = TitlesOff
    /\ norm = NormOff

\* ---- several jobs.  One job runs alone, then a second one runs next to a third
\* and is given what the first was given: the same request and, call by call, the
\* same answers of the network and of the collaborators.  heard.script lists what
\* the first job got (the place, the outcome, the values), heard.pos how much of it
\* the second has got.  With one job heard is off and nothing is listed.
FleetAlone == "j1"
FleetReplay == "j2"
FleetNeighbour == "j3"
FleetIds == {FleetAlone, FleetReplay, FleetNeighbour}

\* the requests and answers the jobs of a fleet run are given
FleetResponses(j, act) ==
    LET few == j = FleetNeighbour
    IN CASE act = "StartJob" ->
              {<<MaxPagesInput, s>> : s \in IF few THEN {FALSE} ELSE BOOLEAN}
         [] act = "DetectLanguage" ->
              {<<f, l>> : f \in IF few THEN {TRUE} ELSE BOOLEAN, l \in DetectedLanguages}
         [] act = "Discover" ->
              {<<Urls, "html", Urls>>} \cup IF few THEN {} ELSE {<<{}, "fail", {}>>}
         [] act \in {"FallbackSimple", "FallbackSelenium"} ->
              {Urls} \cup IF few THEN {} ELSE {{}}
         [] act = "Select" ->
              {[kind |-> "list", urls |-> l] :
                  l \in {<<BaseUrl>>} \cup IF few THEN {} ELSE {<<>>}}
         [] act = "ExtractPage" ->
              {<<"html", "ok">>} \cup IF few THEN {} ELSE {<<"raise", "ok">>}
         [] act = "Compile" ->
              {[kind |-> "content",
                content |-> [id |-> "compiled knowledge base", len |-> 1, pad |-> 0]]} \cup
              IF few THEN {}
              ELSE {[kind |-> "context_length_exceeded",
                     content |-> [id |-> "", len |-> 0, pad |-> 0]]}
         [] OTHER -> {EmptyStr, Str("KB compilation failed", 30)}

\* job j is given val at the place pc[j], with the outcome act
Hears(j, act, val) ==
    IF heard = HeardOff THEN UNCHANGED heard
    ELSE /\ j \in FleetIds
         /\ IF j = FleetReplay
            THEN /\ heard.pos < Len(heard.script)
                 /\ heard.script[heard.pos + 1].at = pc[j]
                 /\ heard.script[heard.pos + 1].act = act
                 /\ heard.script[heard.pos + 1].val = val
                 /\ heard' = [heard EXCEPT !.pos = @ + 1]
            ELSE /\ val \in FleetResponses(j, act)
                 /\ heard' = IF j = FleetAlone
                             THEN [heard EXCEPT !.script =
                                     Append(@, [at |-> pc[j], act |-> act, val |-> val])]
                             ELSE heard

\* start_knowledge_base_generation: POST /api/generate-knowledge-base
StartJob(j, max_pages_input, use_selenium) ==
    /\ j \notin Started
    /\ jobs_lock = "free"
    /\ Hears(j, "StartJob", <<max_pages_input, use_selenium>>)
    /\ jobs' = [k \in Started \cup {j} |->
                  IF k = j THEN job_details(j, max_pages_input, use_selenium) ELSE jobs[k]]
    /\ statusLog' = [statusLog EXCEPT ![j] = <<"pending">>]
    /\ w' = [w EXCEPT ![j] =
               WorkerLocals(Min(max_pages_input, MAX_PAGES_FOR_KB_GENERATION), use_selenium)]
    /\ Goto(j, "L572")
    /\ UNCHANGED <<jobs_lock, poll, calls, crawl, resolver, discovery, titles, norm, submit, probe>>

\* ------------------------------------------------------- discovery helpers
\* lines 590-592: sitemap URLs not yet in the map are added without html
AddSitemapUrls(m, sitemap_urls) ==
    [u \in DOMAIN m \cup sitemap_urls |->
        IF u \in DOMAIN m THEN m[u] ELSE Page(u, "N/A", "sitemap_found", "none")]

\* probe_core_pages for the one candidate slug; fetched is "fail" or the page's
\* html, title what get_page_title_from_html reads in it
probe_core_pages(m, fetched, title) ==
    IF ProbeCandidate \in DOMAIN m
    THEN IF m[ProbeCandidate].html_source = "none" /\ fetched # "fail"
         THEN [m EXCEPT ![ProbeCandidate].html_source = fetched,
                        ![ProbeCandidate].title = IF @ = "N/A" THEN title ELSE @]
         ELSE m
    ELSE IF fetched # "fail"
         THEN [u \in DOMAIN m \cup {ProbeCandidate} |->
                 IF u = ProbeCandidate THEN Page(u, title, "found_by_probe", fetched)
                 ELSE m[u]]
         ELSE m

\* line 594
urls_needing_titles(m) ==
    {u \in DOMAIN m : m[u].status = "sitemap_found" /\ m[u].title = "N/A"}

\* lines 595-600: the pages that needed a title and whose title fetch succeeded
ApplyTitles(m, titled, title) ==
    [u \in DOMAIN m |->
        IF u \in titled \cap urls_needing_titles(m)
        THEN [m[u] EXCEPT !.title = title, !.status = "sitemap_title_fetched"]
        ELSE m[u]]

\* variant: a crawled page replaces the record the map already holds
MergeFallback_Overwrites(m, crawled, status, html, title) ==
    [u \in DOMAIN m \cup crawled |->
        IF u \in crawled THEN Page(u, title, status, html) ELSE m[u]]

\* lines 609-613: merge of the fallback crawl's page list
MergeFallback(m, crawled, status, html, title) ==
    [u \in DOMAIN m \cup crawled |->
        IF u \notin DOMAIN m THEN Page(u, title, status, html)
        ELSE IF u \in crawled /\ html # "none" /\ m[u].html_source = "none"
             THEN [m[u] EXCEPT !.html_source = html,
                               !.title = IF title # "N/A" THEN title ELSE @]
             ELSE m[u]]

\* variant: the fallback crawl runs whatever was discovered
NeedsFallbackCrawl_Always(m) == TRUE

\* line 602
NeedsFallbackCrawl(m) == Cardinality(DOMAIN m) < MIN_DISCOVERED_PAGES_BEFORE_FALLBACK_CRAWL

\* line 616: the crawler_used expression, evaluated after the merge
CrawlerUsed(m, use_selenium) ==
    IF use_selenium /\ NeedsFallbackCrawl(m) THEN "sitemap_probe_then_selenium_fallback"
    ELSE IF NeedsFallbackCrawl(m) THEN "sitemap_probe_then_simple_fallback"
    ELSE "sitemap_probe_then_sitemap_probe_only"

\* line 683: an exception reaches the job's handler
Raise(j, msg) ==
    /\ SetW(j, [job_failed |-> TRUE, error_message |-> msg])
    /\ Goto(j, "L684")

\* lines 619, 637, 675: a stage gives up without an exception
GiveUp(j, msg) ==
    /\ SetW(j, [final_knowledge_base |-> msg, job_failed |-> TRUE, error_message |-> msg])
    /\ Goto(j, "L693")

\* ------------------------------------------------- run_knowledge_base_job
L572(j) ==
    /\ pc[j] = "L572"
    /\ Locked1(j)
    /\ WriteJob(j, [status |-> "detecting_language", started_at |-> TRUE,
                    progress |-> Progress("Fetching main page for language detection...", 0)])
    /\ Goto(j, "L573")
    /\ UNCHANGED <<w, poll, calls, crawl, resolver, discovery, titles, norm, heard, submit, probe>>

\* lines 573-584: main page fetch and language detection (neither raises)
DetectLanguage(j) ==
    /\ pc[j] = "L573"
    /\ \E fetched \in BOOLEAN, lang \in DetectedLanguages :
         /\ Hears(j, "DetectLanguage", <<fetched, lang>>)
         /\ SetW(j, [all_discovered_pages_map |->
                        IF fetched
                        THEN [u \in {BaseUrl} |-> Page(u, "title", "lang_detect_fetch", "none")]
                        ELSE NoPages,
                     target_language |-> IF fetched THEN lang ELSE DEFAULT_TARGET_LANGUAGE]
                    @@ (IF fetched THEN TotalsAfter(w[j], DetectUsage) ELSE <<>>))
         /\ Recorded(j, IF fetched
                        THEN <<CallRecord("detect_language_from_html_with_openai", FALSE,
                                          <<>>, DetectUsage)>>
                        ELSE <<>>)
    /\ Goto(j, "L585")
    /\ UNCHANGED <<jobs, jobs_lock, poll, statusLog, crawl, resolver, discovery, titles, norm, submit, probe>>

L585(j) ==
    /\ pc[j] = "L585"
    /\ Locked1(j)
    /\ WriteJob(j, [detected_target_language |-> w[j].target_language])
    /\ Goto(j, "L588")
    /\ UNCHANGED <<w, poll, calls, crawl, resolver, discovery, titles, norm, heard, submit, probe>>

L588(j) ==
    /\ pc[j] = "L588"
    /\ Locked1(j)
    /\ WriteJob(j, [status |-> "discovering_pages", progress |-> Progress("Discovering pages...", 0)])
    /\ Goto(j, "L589")
    /\ UNCHANGED <<w, poll, calls, crawl, resolver, discovery, titles, norm, heard, submit, probe>>

\* the probe's fetch of the candidate page fails or returns its html
ProbeOutcomes == {"fail", "html"}

\* lines 589-602: sitemaps, core-page probe, title fetch (all of them or none succeed)
Discover(j) ==
    /\ pc[j] = "L589"
    /\ \E sitemap_urls \in SitemapResults, fetched \in ProbeOutcomes,
          titled \in {{}, Urls} :
         LET m == ApplyTitles(probe_core_pages(
                     AddSitemapUrls(w[j].all_discovered_pages_map, sitemap_urls),
                     fetched, "title"), titled, "title")
         IN /\ Hears(j, "Discover", <<sitemap_urls, fetched, titled>>)
            /\ SetW(j, [all_discovered_pages_map |-> m])
            /\ Goto(j, IF NeedsFallbackCrawl(m) THEN "L604" ELSE "L616")
    /\ UNCHANGED <<jobs, jobs_lock, poll, statusLog, calls, crawl, resolver, discovery, titles, norm, submit, probe>>

L604(j) ==
    /\ pc[j] = "L604"
    /\ Locked1(j)
    /\ WriteJob(j, [progress |-> Progress("Fallback crawl...", 0)])
    /\ Goto(j, "L605")
    /\ UNCHANGED <<w, poll, calls, crawl, resolver, discovery, titles, norm, heard, submit, probe>>

\* lines 605-613 with the HTTP crawler: never raises, pages carry no html
FallbackSimple(j) ==
    /\ pc[j] = "L605"
    /\ ~w[j].use_selenium
    /\ \E crawled \in SUBSET Urls :
         /\ Hears(j, "FallbackSimple", crawled)
         /\ SetW(j, [all_discovered_pages_map |->
                       MergeFallback(w[j].all_discovered_pages_map, crawled,
                                     "found_by_simple_fallback_crawl", "none", "title")])
    /\ Goto(j, "L616")
    /\ Called(j, "simple_crawl_website", FALSE, <<>>)
    /\ UNCHANGED <<jobs, jobs_lock, poll, statusLog, crawl, resolver, discovery, titles, norm, submit, probe>>

\* lines 605-613 with the browser crawler: pages carry their page source
FallbackSelenium(j) ==
    /\ pc[j] = "L605"
    /\ w[j].use_selenium
    /\ \E crawled \in SUBSET Urls :
         /\ Hears(j, "FallbackSelenium", crawled)
         /\ SetW(j, [all_discovered_pages_map |->
                       MergeFallback(w[j].all_discovered_pages_map, crawled,
                                     "found_by_selenium_discovery", "html", "title")])
    /\ Goto(j, "L616")
    /\ Called(j, "selenium_crawl_website", FALSE, <<>>)
    /\ UNCHANGED <<jobs, jobs_lock, poll, statusLog, crawl, resolver, discovery, titles, norm, submit, probe>>

\* line 608: a page's href that urljoin cannot parse raises out of the HTTP crawler
\* (line 298)
FallbackSimpleRaises(j) ==
    /\ pc[j] = "L605"
    /\ ~w[j].use_selenium
    /\ \E msg \in ExcMessages : Hears(j, "FallbackSimpleRaises", msg) /\ Raise(j, msg)
    /\ Called(j, "simple_crawl_website", TRUE, <<>>)
    /\ UNCHANGED <<jobs, jobs_lock, poll, statusLog, crawl, resolver, discovery, titles, norm, submit, probe>>

\* line 607: the browser cannot be started and the exception leaves the crawler
FallbackSeleniumRaises(j) ==
    /\ pc[j] = "L605"
    /\ w[j].use_selenium
    /\ \E msg \in ExcMessages : Hears(j, "FallbackSeleniumRaises", msg) /\ Raise(j, msg)
    /\ Called(j, "selenium_crawl_website", TRUE, <<>>)
    /\ UNCHANGED <<jobs, jobs_lock, poll, statusLog, crawl, resolver, discovery, titles, norm, submit, probe>>

\* variant: the empty aggregate is not noticed and goes on to selection
DiscoveryFoundNothing_Never(m) == FALSE

\* line 618
DiscoveryFoundNothing(m) == DOMAIN m = {}

\* lines 616-619
L616(j) ==
    /\ pc[j] = "L616"
    /\ Locked1(j)
    /\ WriteJob(j, [initial_found_pages_count |-> Cardinality(DOMAIN w[j].all_discovered_pages_map),
                    crawler_used |-> CrawlerUsed(w[j].all_discovered_pages_map, w[j].use_selenium)])
    /\ IF DiscoveryFoundNothing(w[j].all_discovered_pages_map)
       THEN GiveUp(j, MsgNoPagesDiscovered)
       ELSE Goto(j, "L622") /\ UNCHANGED w
    /\ UNCHANGED <<poll, calls, crawl, resolver, discovery, titles, norm, heard, submit, probe>>

\* ------------------------------------------------------------- selection
\* the order in which the map's pages are offered (dict insertion order is not modelled;
\* only membership of the offered list is read)
Offered(m) == {m[u].url : u \in DOMAIN m}

\* replies of the selection collaborator: a JSON list of URLs, or text that is no JSON
UrlLists == UNION {[1..n -> Urls \cup {OutsideUrl}] : n \in 0..MaxReply}
SelectReplies == {[kind |-> "list", urls |-> l] : l \in UrlLists}
                 \cup {[kind |-> "invalid_json", urls |-> <<>>]}

IsOffered(page_details, u) == u \in page_details

\* lines 449-479: the reply's URLs that were offered, in reply order, cut to the limit
select_relevant_pages_for_kb_with_openai(page_details, reply, max_pages_to_select) ==
    IF reply.kind = "invalid_json" THEN <<>>
    ELSE PySliceTo(SelectSeq(reply.urls, LAMBDA u : IsOffered(page_details, u)),
                   max_pages_to_select)

L622(j) ==
    /\ pc[j] = "L622"
    /\ Locked1(j)
    /\ WriteJob(j, [status |-> "selecting_pages", progress |-> Progress("AI selecting from discovered pages...", 0)])
    /\ Goto(j, "L624")
    /\ UNCHANGED <<w, poll, calls, crawl, resolver, discovery, titles, norm, heard, submit, probe>>

\* lines 623-633: the selected URLs the map knows become the pages to process
Select(j) ==
    /\ pc[j] = "L624"
    /\ \E reply \in SelectReplies :
         LET m == w[j].all_discovered_pages_map
             ai_selection_limit == Min(w[j].max_pages_for_kb_processing, MAX_PAGES_FOR_KB_GENERATION)
             sel == select_relevant_pages_for_kb_with_openai(Offered(m), reply, ai_selection_limit)
             known == SelectSeq(sel, LAMBDA u : u \in DOMAIN m)
         IN /\ Hears(j, "Select", reply)
            /\ SetW(j, [selected_pages_for_processing_info |->
                           [k \in 1..Len(known) |-> m[known[k]]]]
                        @@ TotalsAfter(w[j], SelectUsage(reply)))
            /\ Recorded(j, <<CallRecord("select_relevant_pages_for_kb_with_openai", FALSE,
                                        <<>>, SelectUsage(reply))>>)
    /\ Goto(j, "L634")
    /\ UNCHANGED <<jobs, jobs_lock, poll, statusLog, crawl, resolver, discovery, titles, norm, submit, probe>>

\* line 482: the collaborator call fails and the exception is re-raised
SelectRaises(j) ==
    /\ pc[j] = "L624"
    /\ \E msg \in ExcMessages : Hears(j, "SelectRaises", msg) /\ Raise(j, msg)
    /\ Called(j, "select_relevant_pages_for_kb_with_openai", TRUE, <<>>)
    /\ UNCHANGED <<jobs, jobs_lock, poll, statusLog, crawl, resolver, discovery, titles, norm, submit, probe>>

\* variant: an empty selection is not noticed and goes on to extraction
NothingSelected_Never(selected) == FALSE

\* line 636
NothingSelected(selected) == selected = <<>>

\* lines 634-637
L634(j) ==
    /\ pc[j] = "L634"
    /\ Locked1(j)
    /\ LET sel == w[j].selected_pages_for_processing_info
       IN /\ WriteJob(j, [pages_selected_for_kb_count |-> Len(sel),
                          pages_selected_for_kb_details |-> [k \in 1..Len(sel) |-> sel[k].url]])
          /\ IF NothingSelected(sel)
             THEN GiveUp(j, MsgNoPagesSelected(w[j].target_language))
             ELSE Goto(j, "L639") /\ UNCHANGED w
    /\ UNCHANGED <<poll, calls, crawl, resolver, discovery, titles, norm, heard, submit, probe>>

\* ------------------------------------------------------------ extraction
\* variant: an extraction without chunks is not noticed and goes on to compilation
NothingExtracted_Never(chunks) == FALSE

\* line 674
NothingExtracted(chunks) == chunks = <<>>

\* lines 640, 674-675: the loop goes on to page next_i, or ends
AfterPage(j, next_i) ==
    IF next_i <= Len(w[j].selected_pages_for_processing_info)
    THEN SetW(j, [i |-> next_i]) /\ Goto(j, "L643")
    ELSE IF NothingExtracted(w[j].extracted_knowledge_chunks)
         THEN GiveUp(j, MsgNoPagesExtracted(w[j].target_language))
         ELSE Goto(j, "L677") /\ UNCHANGED w

L639(j) ==
    /\ pc[j] = "L639"
    /\ Locked1(j)
    /\ WriteJob(j, [status |-> "extracting_knowledge", knowledge_extraction_details |-> <<>>])
    /\ AfterPage(j, 1)
    /\ UNCHANGED <<poll, calls, crawl, resolver, discovery, titles, norm, heard, submit, probe>>

CurrentPage(j) == w[j].selected_pages_for_processing_info[w[j].i]

L643(j) ==
    /\ pc[j] = "L643"
    /\ LockedFirst(j)
    /\ WriteJob(j, [progress |-> Progress("Extracting page", w[j].i)])
    /\ Goto(j, "L645")
    /\ UNCHANGED <<w, poll, calls, crawl, resolver, discovery, titles, norm, heard, submit, probe>>

\* lines 644-646: the pending record is appended to the list the registry holds
L645(j) ==
    /\ pc[j] = "L645"
    /\ LockedLast(j)
    /\ WriteJob(j, [knowledge_extraction_details |->
                      Append(jobs[j].knowledge_extraction_details,
                             [url |-> CurrentPage(j).url, status |-> "pending_extraction",
                              error |-> "None"])])
    /\ Goto(j, "L647")
    /\ UNCHANGED <<w, poll, calls, crawl, resolver, discovery, titles, norm, heard, submit, probe>>

FetchOutcomes == {"raise", "none", "blank", "html"}
ExtractOutcomes == {"raise", "bad_chunk", "ok"}

\* variant: the handler of line 656 does not write the fetch error into the record
ExtractionStatusUpdate_LosesFetchError(page, fetched, extracted) ==
    LET needs_fetch == page.html_source = "none"
        html == IF ~needs_fetch THEN page.html_source
                ELSE IF fetched = "raise" THEN "none" ELSE fetched
    IN IF html = "none"
       THEN [url |-> page.url, status |-> "failed_extraction", error |-> "HTML content unavailable"]
       ELSE IF html = "blank"
            THEN [url |-> page.url, status |-> "failed_extraction", error |-> "HTML content empty."]
       ELSE IF extracted = "raise"
            THEN [url |-> page.url, status |-> "failed_extraction", error |-> "KB extraction failed"]
       ELSE IF extracted = "bad_chunk"
            THEN [url |-> page.url, status |-> "failed_extraction", error |-> "TypeError"]
       ELSE [url |-> page.url, status |-> "extracted", error |-> "None"]

\* lines 647-665: the page's status record after the fetch and the extraction call
ExtractionStatusUpdate(page, fetched, extracted) ==
    LET needs_fetch == page.html_source = "none"
        html == IF ~needs_fetch THEN page.html_source
                ELSE IF fetched = "raise" THEN "none" ELSE fetched
        err0 == IF needs_fetch /\ fetched = "raise" THEN "Live fetch failed"
                ELSE "HTML content unavailable"
    IN IF html = "none" THEN [url |-> page.url, status |-> "failed_extraction", error |-> err0]
       ELSE IF html = "blank"
            THEN [url |-> page.url, status |-> "failed_extraction", error |-> "HTML content empty."]
       ELSE IF extracted = "raise"
            THEN [url |-> page.url, status |-> "failed_extraction", error |-> "KB extraction failed"]
       ELSE IF extracted = "bad_chunk"
            THEN [url |-> page.url, status |-> "failed_extraction", error |-> "TypeError"]
       ELSE [url |-> page.url, status |-> "extracted", error |-> "None"]

\* variant: a chunk joins the list for every page, failed or not
ChunksAfter_AppendsAlways(chunks, update) == Append(chunks, [url |-> update.url])

\* line 664: the chunk joins the list only when the page was extracted
ChunksAfter(chunks, update) ==
    IF update.status = "extracted" THEN Append(chunks, [url |-> update.url]) ELSE chunks

\* lines 649, 652: a page without html is fetched by a one-page browser crawl when
\* the job uses the browser and the page was not found by the probe
FetchesWithBrowser(use_selenium, page) ==
    /\ page.html_source = "none"
    /\ use_selenium
    /\ page.status # "found_by_probe"

\* lines 648-660: the html the extraction call is given; "none" and "blank" html
\* never reach the call
HtmlToExtract(page, fetched) ==
    IF page.html_source # "none" THEN page.html_source
    ELSE IF fetched = "raise" THEN "none" ELSE fetched
ExtractionCalled(page, fetched) == HtmlToExtract(page, fetched) \notin {"none", "blank"}

ExtractPage(j) ==
    /\ pc[j] = "L647"
    /\ \E fetched \in FetchOutcomes, extracted \in ExtractOutcomes :
         LET update == ExtractionStatusUpdate(CurrentPage(j), fetched, extracted)
             called == ExtractionCalled(CurrentPage(j), fetched)
             returned == called /\ extracted # "raise"
         IN /\ Hears(j, "ExtractPage", <<fetched, extracted>>)
            /\ SetW(j, [extraction_status_update |-> update,
                        extracted_knowledge_chunks |->
                           ChunksAfter(w[j].extracted_knowledge_chunks, update)]
                        @@ (IF returned THEN TotalsAfter(w[j], ExtractUsage) ELSE <<>>))
            /\ Recorded(j,
                  (IF FetchesWithBrowser(w[j].use_selenium, CurrentPage(j))
                   THEN <<CallRecord("selenium_crawl_website", fetched = "raise", <<>>, NoUsage)>>
                   ELSE <<>>)
                  \o (IF called
                      THEN <<CallRecord("extract_knowledge_from_page_with_openai", ~returned,
                                        <<>>, IF returned THEN ExtractUsage ELSE NoUsage)>>
                      ELSE <<>>))
    /\ Goto(j, "L667")
    /\ UNCHANGED <<jobs, jobs_lock, poll, statusLog, crawl, resolver, discovery, titles, norm, submit, probe>>

\* variant: the page's record is appended and the pending record stays
ReplacePending_KeepsPending(details_list, update) == Append(details_list, update)

\* lines 667-672: the first pending record of this URL is replaced, else one is appended
ReplacePending(details_list, update) ==
    LET hits == {idx \in 1..Len(details_list) :
                    /\ details_list[idx].url = update.url
                    /\ details_list[idx].status = "pending_extraction"}
    IN IF hits = {} THEN Append(details_list, update)
       ELSE LET first == CHOOSE idx \in hits : \A other \in hits : idx <= other
            IN [details_list EXCEPT ![first] = update]

L667(j) ==
    /\ pc[j] = "L667"
    /\ LockedFirst(j)
    /\ WriteJob(j, [knowledge_extraction_details |->
                      ReplacePending(jobs[j].knowledge_extraction_details,
                                     w[j].extraction_status_update)])
    /\ Goto(j, "L673")
    /\ UNCHANGED <<w, poll, calls, crawl, resolver, discovery, titles, norm, heard, submit, probe>>

\* line 673 and the loop's next iteration
L673(j) ==
    /\ pc[j] = "L673"
    /\ LockedLast(j)
    /\ WriteJob(j, [intermediate_knowledge_chunks_count |-> Len(w[j].extracted_knowledge_chunks)])
    /\ AfterPage(j, w[j].i + 1)
    /\ UNCHANGED <<poll, calls, crawl, resolver, discovery, titles, norm, heard, submit, probe>>

\* ----------------------------------------------------------- compilation
L677(j) ==
    /\ pc[j] = "L677"
    /\ Locked1(j)
    /\ WriteJob(j, [status |-> "compiling_kb",
                    progress |-> Progress("AI compiling chunks...", Len(w[j].extracted_knowledge_chunks))])
    /\ Goto(j, "L678")
    /\ UNCHANGED <<w, poll, calls, crawl, resolver, discovery, titles, norm, heard, submit, probe>>

\* message.content of the compilation reply: its length and the blanks around it
CompileContents == {[id |-> "compiled knowledge base", len |-> n, pad |-> p] :
                       n \in {1, MaxKbLen}, p \in 0..1}
CompileOutcomes == {[kind |-> "content", content |-> c] : c \in CompileContents}
                   \cup {[kind |-> "context_length_exceeded",
                          content |-> [id |-> "", len |-> 0, pad |-> 0]]}

\* lines 545-554: what compile_final_knowledge_base_with_openai returns
compile_final_knowledge_base_with_openai(outcome, target_language) ==
    IF outcome.kind = "content" THEN Strip(outcome.content)
    ELSE MsgContentTooLarge(target_language)

\* line 678
Compile(j) ==
    /\ pc[j] = "L678"
    /\ \E outcome \in CompileOutcomes :
         /\ Hears(j, "Compile", outcome)
         /\ SetW(j, [final_knowledge_base |->
                       compile_final_knowledge_base_with_openai(outcome, w[j].target_language)]
                     @@ TotalsAfter(w[j], CompileUsage(outcome)))
         /\ Recorded(j, <<CallRecord("compile_final_knowledge_base_with_openai", FALSE,
                                     w[j].extracted_knowledge_chunks, CompileUsage(outcome))>>)
    /\ Goto(j, "L680")
    /\ UNCHANGED <<jobs, jobs_lock, poll, statusLog, crawl, resolver, discovery, titles, norm, submit, probe>>

\* line 555: any other failure of the call is raised as RuntimeError
CompileRaises(j) ==
    /\ pc[j] = "L678"
    /\ Hears(j, "CompileRaises", MsgCompilationFailed)
    /\ Raise(j, MsgCompilationFailed)
    /\ Called(j, "compile_final_knowledge_base_with_openai", TRUE, w[j].extracted_knowledge_chunks)
    /\ UNCHANGED <<jobs, jobs_lock, poll, statusLog, crawl, resolver, discovery, titles, norm, submit, probe>>

L680(j) ==
    /\ pc[j] = "L680"
    /\ Locked1(j)
    /\ WriteJob(j, [final_knowledge_base |-> w[j].final_knowledge_base])
    /\ Goto(j, "L693")
    /\ UNCHANGED <<w, poll, calls, crawl, resolver, discovery, titles, norm, heard, submit, probe>>

\* ------------------------------------------------ handler and final block
\* the handler puts the job back to pending instead of failing it
HandlerUpdate_Requeues(error_message) == [status |-> "pending", error |-> error_message]

\* line 686
HandlerUpdate(error_message) == [status |-> "failed", error |-> error_message]

L686(j) ==
    /\ pc[j] = "L684"
    /\ LockedFirst(j)
    /\ WriteJob(j, HandlerUpdate(w[j].error_message))
    /\ Goto(j, "L687")
    /\ UNCHANGED <<w, poll, calls, crawl, resolver, discovery, titles, norm, heard, submit, probe>>

\* line 687, 697: the local result is stored when the registry holds none
StoreResultIfMissing(job, final_knowledge_base, only_if_truthy) ==
    IF /\ ~Truthy(job.final_knowledge_base)
       /\ IF only_if_truthy THEN Truthy(final_knowledge_base) ELSE final_knowledge_base # NoneT
    THEN [final_knowledge_base |-> final_knowledge_base]
    ELSE [final_knowledge_base |-> job.final_knowledge_base]

L687(j) ==
    /\ pc[j] = "L687"
    /\ LockedLast(j)
    /\ WriteJob(j, StoreResultIfMissing(jobs[j], w[j].final_knowledge_base, TRUE))
    /\ Goto(j, "L693")
    /\ UNCHANGED <<w, poll, calls, crawl, resolver, discovery, titles, norm, heard, submit, probe>>

\* the final block ignores job_failed
FinalStatus_AlwaysCompleted(job_failed) == "completed"

\* the final block fails every job
FinalStatus_AlwaysFailed(job_failed) == "failed"

\* line 689
FinalStatus(job_failed) == IF job_failed THEN "failed" ELSE "completed"

\* line 695
L695(j) ==
    /\ pc[j] = "L693"
    /\ LockedFirst(j)
    /\ WriteJob(j, [status |-> FinalStatus(w[j].job_failed), finished_at |-> TRUE,
                    progress |-> Progress("Job finished.", 0),
                    total_prompt_tokens |-> w[j].total_prompt_tokens,
                    total_completion_tokens |-> w[j].total_completion_tokens])
    /\ Goto(j, "L696")
    /\ UNCHANGED <<w, poll, calls, crawl, resolver, discovery, titles, norm, heard, submit, probe>>

\* the final block leaves the error field as it found it
ErrorIfMissing_Skips(job, final_status, error_message) == [error |-> job.error]

\* the final block stores error_message without the "Unknown error" default
ErrorIfMissing_NoDefault(job, final_status, error_message) ==
    IF final_status = "failed" /\ ~Truthy(job.error)
    THEN [error |-> error_message]
    ELSE [error |-> job.error]

\* line 696
ErrorIfMissing(job, final_status, error_message) ==
    IF final_status = "failed" /\ ~Truthy(job.error)
    THEN [error |-> IF Truthy(error_message) THEN error_message ELSE MsgUnknownError]
    ELSE [error |-> job.error]

L696(j) ==
    /\ pc[j] = "L696"
    /\ LockedMid(j)
    /\ WriteJob(j, ErrorIfMissing(jobs[j], FinalStatus(w[j].job_failed), w[j].error_message))
    /\ Goto(j, "L697")
    /\ UNCHANGED <<w, poll, calls, crawl, resolver, discovery, titles, norm, heard, submit, probe>>

\* lines 697-698 (detected_target_language is a key of every record, so 698 writes nothing)
L697(j) ==
    /\ pc[j] = "L697"
    /\ LockedLast(j)
    /\ WriteJob(j, StoreResultIfMissing(jobs[j], w[j].final_knowledge_base, FALSE))
    /\ Goto(j, "done")
    /\ UNCHANGED <<w, poll, calls, crawl, resolver, discovery, titles, norm, heard, submit, probe>>

Worker(j) ==
    \/ L572(j) \/ DetectLanguage(j) \/ L585(j) \/ L588(j) \/ Discover(j)
    \/ L604(j) \/ FallbackSimple(j) \/ FallbackSimpleRaises(j)
    \/ FallbackSelenium(j) \/ FallbackSeleniumRaises(j)
    \/ L616(j) \/ L622(j) \/ Select(j) \/ SelectRaises(j) \/ L634(j) \/ L639(j)
    \/ L643(j) \/ L645(j) \/ ExtractPage(j) \/ L667(j) \/ L673(j)
    \/ L677(j) \/ Compile(j) \/ CompileRaises(j) \/ L680(j)
    \/ L686(j) \/ L687(j) \/ L695(j) \/ L696(j) \/ L697(j)

\* ------------------------------------------------------------ status poll
Absent == [id |-> "absent", len |-> 0]

\* the full text is dropped from every response that carries a preview
get_knowledge_base_job_status_DropsAlways(job_copy) ==
    LET kb == job_copy.final_knowledge_base
        large == Truthy(kb) /\ kb.len > StatusPreviewChars
    IN [code |-> 200,
        status |-> job_copy.status,
        progress |-> job_copy.progress,
        error |-> job_copy.error,
        finished_at |-> job_copy.finished_at,
        total_prompt_tokens |-> job_copy.total_prompt_tokens,
        total_completion_tokens |-> job_copy.total_completion_tokens,
        final_knowledge_base |-> IF large THEN Absent ELSE kb,
        final_knowledge_base_preview |->
            IF large THEN Prefix(kb, StatusPreviewChars) ELSE Absent]

\* the del of line 737 is missing
get_knowledge_base_job_status_KeepsFull(job_copy) ==
    LET kb == job_copy.final_knowledge_base
        large == Truthy(kb) /\ kb.len > StatusPreviewChars
    IN [code |-> 200,
        status |-> job_copy.status,
        progress |-> job_copy.progress,
        error |-> job_copy.error,
        finished_at |-> job_copy.finished_at,
        total_prompt_tokens |-> job_copy.total_prompt_tokens,
        total_completion_tokens |-> job_copy.total_completion_tokens,
        final_knowledge_base |-> kb,
        final_knowledge_base_preview |->
            IF large THEN Prefix(kb, StatusPreviewChars) ELSE Absent]

\* lines 734-737 applied to the copy
get_knowledge_base_job_status(job_copy) ==
    LET kb == job_copy.final_knowledge_base
        large == Truthy(kb) /\ kb.len > StatusPreviewChars
    IN [code |-> 200,
        status |-> job_copy.status,
        progress |-> job_copy.progress,
        error |-> job_copy.error,
        finished_at |-> job_copy.finished_at,
        total_prompt_tokens |-> job_copy.total_prompt_tokens,
        total_completion_tokens |-> job_copy.total_completion_tokens,
        final_knowledge_base |->
            IF large /\ job_copy.status # "completed" THEN Absent ELSE kb,
        final_knowledge_base_preview |->
            IF large THEN Prefix(kb, StatusPreviewChars) ELSE Absent]

\* line 732: the record is looked up under the lock
PollGet(j) ==
    /\ poll.pc = "idle"
    /\ jobs_lock = "free"
    /\ j \in Started
    /\ poll' = [poll EXCEPT !.pc = "got", !.job = j]
    /\ UNCHANGED <<jobs, jobs_lock, pc, w, statusLog, calls, crawl, resolver, discovery, titles, norm, heard, submit, probe>>

\* line 733: an unknown job id is answered 404
PollNotFound(j) ==
    /\ poll.pc = "idle"
    /\ jobs_lock = "free"
    /\ j \notin Started
    /\ UNCHANGED vars

\* the response a poll returns when it copies the record in the current state
PollResponse == get_knowledge_base_job_status(jobs[poll.job])

\* lines 734-739: the copy is taken after the lock was released, and PollResponse
\* leaves the server
PollCopy ==
    /\ poll.pc = "got"
    /\ poll' = PollIdle
    /\ UNCHANGED <<jobs, jobs_lock, pc, w, statusLog, calls, crawl, resolver, discovery, titles, norm, heard, submit, probe>>

\* the list object jobs[j]["knowledge_extraction_details"] refers to: the one the
\* submission created (line 720) until line 639 installs a new one, which lines
\* 644-646 and 667-672 then change in place
DetailsListObject(j) ==
    IF "extracting_knowledge" \in Range(statusLog[j]) THEN "L639" ELSE "L720"

\* line 734 on its own: job.copy() is a shallow copy, so the copy's
\* knowledge_extraction_details is the registry's list object, not a copy of it
PollCopyRecord ==
    /\ poll.pc = "got"
    /\ poll' = [poll EXCEPT !.pc = "copied",
                            !.job_copy = jobs[poll.job],
                            !.shares_details = (DetailsListObject(poll.job) = "L639")]
    /\ UNCHANGED <<jobs, jobs_lock, pc, w, statusLog, calls, crawl, resolver, discovery, titles, norm, heard, submit, probe>>

\* what the copy's knowledge_extraction_details reads as now: the installed list
\* object follows the worker's in-place changes
job_copy_details ==
    IF poll.shares_details /\ DetailsListObject(poll.job) = "L639"
    THEN jobs[poll.job].knowledge_extraction_details
    ELSE poll.job_copy.knowledge_extraction_details

\* line 739: jsonify(job_copy) reads the copy's fields and the list, and the
\* response leaves the server
PollJsonify ==
    /\ poll.pc = "copied"
    /\ poll' = PollIdle
    /\ UNCHANGED <<jobs, jobs_lock, pc, w, statusLog, calls, crawl, resolver, discovery, titles, norm, heard, submit, probe>>

Next ==
    \/ \E j \in JobIds, n \in MaxPagesInputs, s \in BOOLEAN : StartJob(j, n, s)
    \/ \E j \in JobIds : Worker(j)
    \/ \E j \in JobIds : PollGet(j)
    \/ \E j \in JobIds : PollNotFound(j)
    \/ PollCopy

Spec == Init /\ [][Next]_vars

\* the same program with the poll's copy (734) and its serialisation (739) as two
\* steps, between which the worker may run
NextSerialized ==
    \/ \E j \in JobIds, n \in MaxPagesInputs, s \in BOOLEAN : StartJob(j, n, s)
    \/ \E j \in JobIds : Worker(j)
    \/ \E j \in JobIds : PollGet(j)
    \/ \E j \in JobIds : PollNotFound(j)
    \/ PollCopyRecord
    \/ PollJsonify

SerializedSpec == Init /\ [][NextSerialized]_vars

\* every started worker thread keeps running: the scheduler is fair to it
FairSpec == Spec /\ \A j \in JobIds : WF_vars(Worker(j))

\* three jobs and no poll: the first job alone, then the other two side by side
FleetInit ==
    /\ jobs = [k \in {} |-> 0]
    /\ jobs_lock = "free"
    /\ pc = [j \in FleetIds |-> "none"]
    /\ w = [j \in FleetIds |-> WorkerLocals(0, FALSE)]
    /\ poll = PollIdle
    /\ statusLog = [j \in FleetIds |-> <<>>]
    /\ calls = [j \in FleetIds |-> <<>>]
    /\ heard = [script |-> <<>>, pos |-> 0]
    /\ submit = SubmitOff
    /\ probe = ProbeOff
    /\ crawl = CrawlOff
    /\ resolver = ResolverOff
    /\ discovery = DiscoveryOff
    /\ titles = TitlesOff
    /\ norm = NormOff

FleetNext ==
    \/ \E j \in FleetIds, n \in MaxPagesInputs, s \in BOOLEAN :
         /\ j # FleetAlone => pc[FleetAlone] = "done"
         /\ StartJob(j, n, s)
    \/ \E j \in FleetIds : Worker(j)

FleetSpec == FleetInit /\ [][FleetNext]_vars

\* ---- the submission endpoint statement by statement: the request is read and
\* checked (705-713), the record is put into the registry (724), the worker thread
\* is started (725-726) and 202 is answered (727), while the started worker and the
\* polls run
SubmitIdle == [pc |-> "idle", job_id |-> "None", max_pages_input |-> 0,
               use_selenium |-> FALSE, accepted |-> {}]

\* variant: the thread is started before the record is in the registry
SubmitOrder_StartsThreadFirst == <<"L725", "L724", "L727">>

\* lines 724-727 in their order
SubmitOrder == <<"L724", "L725", "L727">>

SubmitAfter(label) ==
    LET k == CHOOSE i \in 1..Len(SubmitOrder) : SubmitOrder[i] = label
    IN IF k = Len(SubmitOrder) THEN "idle" ELSE SubmitOrder[k + 1]

SubmitInit ==
    /\ jobs = [k \in {} |-> 0]
    /\ jobs_lock = "free"
    /\ pc = [j \in JobIds |-> "none"]
    /\ w = [j \in JobIds |-> WorkerLocals(0, FALSE)]
    /\ poll = PollIdle
    /\ statusLog = [j \in JobIds |-> <<>>]
    /\ calls = [j \in JobIds |-> <<>>]
    /\ heard = HeardOff
    /\ submit = SubmitIdle
    /\ probe = ProbeOff
    /\ crawl = CrawlOff
    /\ resolver = ResolverOff
    /\ discovery = DiscoveryOff
    /\ titles = TitlesOff
    /\ norm = NormOff

\* lines 705-713: a valid request gets a fresh job id
SubmitRequest(j, max_pages_input, use_selenium) ==
    /\ submit.pc = "idle"
    /\ j \notin Started \cup submit.accepted
    /\ pc[j] = "none"
    /\ submit' = [submit EXCEPT !.pc = SubmitOrder[1], !.job_id = j,
                                !.max_pages_input = max_pages_input,
                                !.use_selenium = use_selenium]
    /\ UNCHANGED <<jobs, jobs_lock, pc, w, poll, statusLog, calls, heard,
                   crawl, resolver, discovery, titles, norm, probe>>

\* line 724: with jobs_lock: jobs[job_id] = job_details
SubmitInsert ==
    /\ submit.pc = "L724"
    /\ jobs_lock = "free"
    /\ jobs' = [k \in Started \cup {submit.job_id} |->
                  IF k = submit.job_id
                  THEN job_details(k, submit.max_pages_input, submit.use_selenium)
                  ELSE jobs[k]]
    /\ statusLog' = [statusLog EXCEPT ![submit.job_id] = <<"pending">>]
    /\ submit' = [submit EXCEPT !.pc = SubmitAfter("L724")]
    /\ UNCHANGED <<jobs_lock, pc, w, poll, calls, heard,
                   crawl, resolver, discovery, titles, norm, probe>>

\* lines 725-726: the worker thread starts with the request's arguments
SubmitStartThread ==
    /\ submit.pc = "L725"
    /\ w' = [w EXCEPT ![submit.job_id] =
               WorkerLocals(Min(submit.max_pages_input, MAX_PAGES_FOR_KB_GENERATION),
                            submit.use_selenium)]
    /\ Goto(submit.job_id, "L572")
    /\ submit' = [submit EXCEPT !.pc = SubmitAfter("L725")]
    /\ UNCHANGED <<jobs, jobs_lock, poll, statusLog, calls, heard,
                   crawl, resolver, discovery, titles, norm, probe>>

\* line 727: 202 with the job id
SubmitAccepted ==
    /\ submit.pc = "L727"
    /\ submit' = [submit EXCEPT !.pc = SubmitAfter("L727"),
                                !.accepted = @ \cup {submit.job_id}]
    /\ UNCHANGED <<jobs, jobs_lock, pc, w, poll, statusLog, calls, heard,
                   crawl, resolver, discovery, titles, norm, probe>>

SubmitNext ==
    \/ \E j \in JobIds, n \in MaxPagesInputs, s \in BOOLEAN : SubmitRequest(j, n, s)
    \/ SubmitInsert
    \/ SubmitStartThread
    \/ SubmitAccepted
    \/ \E j \in JobIds : Worker(j)
    \/ \E j \in JobIds : PollGet(j)
    \/ \E j \in JobIds : PollNotFound(j)
    \/ PollCopy

SubmitSpec == SubmitInit /\ [][SubmitNext]_vars

\* ================================================================ crawlers
\* simple_crawl_website and selenium_crawl_website, followed one statement group at
\* a time.  A URL is its host (netloc), its path and what follows the path (a query
\* or a fragment, "" when there is none).
jobVars == <<jobs, jobs_lock, pc, w, poll, statusLog, calls, heard, submit, probe>>

Hrefs == [host : {"site"}, path : {"/", "/a", "/b"}, rest : {""}] \cup
         {[host |-> "site", path |-> "/a", rest |-> "?q#f"],
          [host |-> "elsewhere", path |-> "/", rest |-> ""]}
\* the root URL a crawl is called with
CrawlRoots == [host : {"site"}, path : {"/"}, rest : {"", "?q#f"}]
\* the <a href> values of one fetched page, resolved by urljoin, in document order
LinkLists == UNION {[1..n -> Hrefs] : n \in 0..MaxLinks}

\* urlparse(u)._replace(fragment="", query="").geturl()
StripQueryAndFragment(u) == [u EXCEPT !.rest = ""]
\* urlparse(u).netloc
netloc(u) == u.host

SameNetloc_Any(absolute_url, base_domain) == TRUE

\* lines 274, 297, 340: the link's host is the root's
SameNetloc(absolute_url, base_domain) == netloc(absolute_url) = base_domain

IsNewToFrontier_IgnoresQueue(absolute_url, visited_urls, queue) ==
    absolute_url \notin visited_urls

\* lines 274, 297, 340: the link is neither visited nor waiting
IsNewToFrontier(absolute_url, visited_urls, queue) ==
    absolute_url \notin visited_urls /\ absolute_url \notin Range(queue)

WithinBudget_Inclusive(processed_count, max_pages_to_discover) ==
    processed_count <= max_pages_to_discover

\* lines 276, 317: the loop goes on while pages may still be harvested
WithinBudget(processed_count, max_pages_to_discover) == processed_count < max_pages_to_discover

\* lines 272-274 (capped = FALSE) and 294-298, 336-341 (capped = TRUE): the links of
\* one page join the queue
RECURSIVE EnqueueLinks(_, _, _, _)
EnqueueLinks(queue, links, c, capped) ==
    IF links = <<>> THEN queue
    ELSE LET absolute_url == StripQueryAndFragment(Head(links))
             accepted ==
                 /\ SameNetloc(absolute_url, netloc(c.base_url))
                 /\ IsNewToFrontier(absolute_url, c.visited_urls, queue)
                 /\ capped => Len(queue) + c.processed_count <
                                 c.max_pages_to_discover + FrontierSlack
         IN EnqueueLinks(IF accepted THEN Append(queue, absolute_url) ELSE queue,
                         Tail(links), c, capped)

\* the two crawlers of grand_spider_knowledge.py; grand_spider.py has a third
KnowledgeCrawlers == {"simple", "selenium"}
GrandSpiderCrawlers == {"grand_spider_simple", "grand_spider_selenium"}
BrowserCrawlers == {"selenium", "grand_spider_selenium"}

\* lines 264-267, 306-308: the locals of a crawl that was just called;
\* driver is the browser session ("None", "live", "quit", or "quit_failed" when
\* quit() itself raised), escaping an exception on its way out of the try.  Three
\* fields are history, not locals: dequeued lists every URL popped from the queue,
\* requested every URL asked of the network (with the place that asked),
\* hosts_linked the host of every link a fetched page carried, repeat_linked whether
\* a page linked to a URL already visited or waiting.
CrawlCall(variant, base_url, max_pages_to_discover) ==
    [pc |-> "called", variant |-> variant, base_url |-> base_url,
     max_pages_to_discover |-> max_pages_to_discover,
     queue |-> <<>>, visited_urls |-> {}, found_pages_details |-> <<>>,
     processed_count |-> 0, current_url |-> base_url,
     driver |-> "None", escaping |-> FALSE,
     dequeued |-> <<>>, requested |-> <<>>, hosts_linked |-> {}, repeat_linked |-> FALSE]

\* lines 274, 299, 341: one of the normalised links of a page is a URL the crawl c
\* has visited or has waiting
LinksKnownUrl(absolute_urls, c) ==
    absolute_urls \cap (c.visited_urls \cup Range(c.queue)) # {}

\* lines 269, 282, 324: one request of the crawl
Request(url, at) == [url |-> url, at |-> at]

CrawlInit ==
    /\ JobInit
    /\ probe = ProbeOff
    /\ resolver = ResolverOff
    /\ discovery = DiscoveryOff
    /\ titles = TitlesOff
    /\ norm = NormOff
    /\ crawl \in {CrawlCall(v, b, n) :
                     v \in KnowledgeCrawlers \cup GrandSpiderCrawlers,
                     b \in CrawlRoots, n \in 0 .. MaxCrawlBudget}

\* lines 268-275: the root page is fetched for its links only
SimpleSeed ==
    /\ crawl.pc = "called" /\ crawl.variant = "simple"
    /\ LET asked == [crawl EXCEPT !.requested = Append(@, Request(crawl.base_url, "seed"))]
       IN \/ crawl' = [asked EXCEPT !.pc = "loop"]
          \/ \E links \in LinkLists :
               crawl' = [asked EXCEPT !.pc = "loop",
                                      !.hosts_linked = @ \cup {netloc(l) : l \in Range(links)},
                                      !.queue = EnqueueLinks(<<>>, links, crawl, FALSE)]
    /\ UNCHANGED <<jobVars, resolver, discovery, titles, norm>>

\* lines 309-315: the browser starts and the root URL is the first of the queue
SeleniumSeed ==
    /\ crawl.pc = "called" /\ crawl.variant = "selenium"
    /\ crawl' = [crawl EXCEPT !.pc = "loop", !.queue = <<crawl.base_url>>,
                              !.driver = "live"]
    /\ UNCHANGED <<jobVars, resolver, discovery, titles, norm>>

\* lines 305, 313 (grand_spider.py 566, 580): no browser; driver is still None,
\* the finally block has nothing to quit and the exception leaves the crawl
SeleniumRaises ==
    /\ crawl.pc = "called" /\ crawl.variant \in BrowserCrawlers
    /\ crawl' = [crawl EXCEPT !.pc = "raised"]
    /\ UNCHANGED <<jobVars, resolver, discovery, titles, norm>>

\* an exception that no handler inside the try catches, with the browser running:
\* line 314 (grand_spider.py 581), set_page_load_timeout on the browser just
\* started; in grand_spider.py also any exception of the page other than
\* TimeoutException and WebDriverException (lines 587-604).  The URL line 320
\* parses was parsed when it was queued (308, 341), so line 320 raises nothing.
SeleniumEscapes ==
    /\ crawl.variant \in BrowserCrawlers
    /\ \/ crawl.pc = "called"
       \/ crawl.pc = "fetch" /\ crawl.variant = "grand_spider_selenium"
    /\ crawl' = [crawl EXCEPT !.pc = "finally", !.escaping = TRUE, !.driver = "live"]
    /\ UNCHANGED <<jobVars, resolver, discovery, titles, norm>>

\* variant: the finally block leaves the browser alone
Finally_SkipsQuit(driver, quit_raises) == driver

\* lines 345-347 (grand_spider.py 606): the browser after the finally block
Finally(driver, quit_raises) ==
    IF driver = "None" THEN "None"
    ELSE IF quit_raises THEN "quit_failed" ELSE "quit"

\* lines 344-349 (grand_spider.py 605-607): the finally block, then the return or
\* the exception; grand_spider.py lets an exception of quit() out, line 347 drops it
SeleniumFinally ==
    /\ crawl.pc = "finally"
    /\ \E quit_raises \in BOOLEAN :
         crawl' = [crawl EXCEPT
                     !.driver = Finally(@, quit_raises),
                     !.pc = IF \/ crawl.escaping
                               \/ quit_raises /\ crawl.variant = "grand_spider_selenium"
                            THEN "raised" ELSE "returned"]
    /\ UNCHANGED <<jobVars, resolver, discovery, titles, norm>>

\* lines 276-279 and 317-321: the next URL leaves the queue and is marked visited
Dequeue ==
    /\ crawl.pc = "loop" /\ crawl.variant \in KnowledgeCrawlers
    /\ crawl.queue # <<>>
    /\ WithinBudget(crawl.processed_count, crawl.max_pages_to_discover)
    /\ LET current_url == Head(crawl.queue)
           skipped == \/ current_url \in crawl.visited_urls
                      \/ /\ crawl.variant = "selenium"
                         /\ netloc(current_url) # netloc(crawl.base_url)
           popped == [crawl EXCEPT !.queue = Tail(@), !.dequeued = Append(@, current_url)]
       IN crawl' = IF skipped
                   THEN popped
                   ELSE [popped EXCEPT !.current_url = current_url,
                                       !.visited_urls = @ \cup {current_url},
                                       !.requested = Append(@, Request(current_url, "loop")),
                                       !.pc = "fetch"]
    /\ UNCHANGED <<jobVars, resolver, discovery, titles, norm>>

\* lines 281-291, 323 (failure) : the page cannot be fetched, is no HTML, or the
\* browser fails on it; nothing is harvested
FetchFails ==
    /\ crawl.pc = "fetch" /\ crawl.variant \in KnowledgeCrawlers
    /\ crawl' = [crawl EXCEPT !.pc = "loop"]
    /\ UNCHANGED <<jobVars, resolver, discovery, titles, norm>>

\* lines 292-298 and 330-341: the page is harvested and, while the budget lasts, its
\* links join the queue
FetchHarvests ==
    /\ crawl.pc = "fetch" /\ crawl.variant \in KnowledgeCrawlers
    /\ \E links \in LinkLists :
         LET harvested == [crawl EXCEPT
                             !.found_pages_details = Append(@, crawl.current_url),
                             !.processed_count = @ + 1]
         IN crawl' = [harvested EXCEPT
                        !.pc = "loop",
                        !.hosts_linked = @ \cup {netloc(l) : l \in Range(links)},
                        !.repeat_linked =
                            @ \/ LinksKnownUrl({StripQueryAndFragment(l) : l \in Range(links)}, crawl),
                        !.queue = IF WithinBudget(harvested.processed_count,
                                                  harvested.max_pages_to_discover)
                                  THEN EnqueueLinks(@, links, harvested, TRUE)
                                  ELSE @]
    /\ UNCHANGED <<jobVars, resolver, discovery, titles, norm>>

\* lines 292-298 (grand_spider.py 551-556): the page is in the list and one of its
\* hrefs is one urljoin cannot parse ("http://[x"); the ValueError is raised outside
\* the try of lines 281-291 (and is no RequestException for grand_spider.py 560),
\* and leaves the crawl.  Line 295 reads the links only while the budget lasts.
LinkRaises ==
    /\ crawl.pc = "fetch" /\ crawl.variant \in {"simple", "grand_spider_simple"}
    /\ crawl.variant = "simple" =>
          WithinBudget(crawl.processed_count + 1, crawl.max_pages_to_discover)
    /\ crawl' = [crawl EXCEPT !.pc = "raised",
                              !.escaping = TRUE,
                              !.found_pages_details = Append(@, crawl.current_url),
                              !.processed_count =
                                  IF crawl.variant = "simple" THEN @ + 1 ELSE @]
    /\ UNCHANGED <<jobVars, resolver, discovery, titles, norm>>

\* lines 299-300, 346-347: the loop is over and the list is returned
CrawlReturn ==
    /\ crawl.pc = "loop" /\ crawl.variant \in KnowledgeCrawlers
    /\ ~(crawl.queue # <<>> /\ WithinBudget(crawl.processed_count, crawl.max_pages_to_discover))
    /\ crawl' = [crawl EXCEPT !.pc = IF crawl.variant \in BrowserCrawlers
                                     THEN "finally" ELSE "returned"]
    /\ UNCHANGED <<jobVars, resolver, discovery, titles, norm>>

\* ---- simple_crawl_website and selenium_crawl_website of grand_spider.py: the
\* frontier is a set, kept here as a sequence without repetition from which any
\* element may be popped

\* grand_spider.py line 557: urlparse(u)._replace(fragment="").geturl()
StripFragment(u) == [u EXCEPT !.rest = IF @ = "?q#f" THEN "?q" ELSE @]

\* grand_spider.py lines 555-559: the links of one page join urls_to_visit
RECURSIVE AddLinks(_, _, _)
AddLinks(urls_to_visit, links, c) ==
    IF links = <<>> THEN urls_to_visit
    ELSE LET absolute_url == StripFragment(Head(links))
             accepted == /\ SameNetloc(absolute_url, netloc(c.base_url))
                         /\ absolute_url \notin c.visited_urls
                         /\ absolute_url \notin Range(urls_to_visit)
         IN AddLinks(IF accepted THEN Append(urls_to_visit, absolute_url)
                     ELSE urls_to_visit, Tail(links), c)

\* s without its i-th element
RemoveAt(s, i) == [k \in 1 .. Len(s) - 1 |-> IF k < i THEN s[k] ELSE s[k + 1]]

\* grand_spider.py lines 538, 568 and 580
GrandSpiderSeed ==
    /\ crawl.pc = "called" /\ crawl.variant \in GrandSpiderCrawlers
    /\ crawl' = [crawl EXCEPT !.pc = "loop", !.queue = <<crawl.base_url>>,
                              !.driver = IF crawl.variant \in BrowserCrawlers
                                         THEN "live" ELSE @]
    /\ UNCHANGED <<jobVars, resolver, discovery, titles, norm>>

\* grand_spider.py lines 543-547, 582-586
GrandSpiderPop ==
    /\ crawl.pc = "loop" /\ crawl.variant \in GrandSpiderCrawlers
    /\ crawl.queue # <<>>
    /\ WithinBudget(Len(crawl.found_pages_details), crawl.max_pages_to_discover)
    /\ \E i \in 1 .. Len(crawl.queue) :
         LET current_url == crawl.queue[i]
             skipped == \/ current_url \in crawl.visited_urls
                        \/ netloc(current_url) # netloc(crawl.base_url)
             popped == [crawl EXCEPT !.queue = RemoveAt(@, i),
                                     !.dequeued = Append(@, current_url)]
         IN crawl' = IF skipped
                     THEN popped
                     ELSE [popped EXCEPT !.current_url = current_url,
                                         !.visited_urls = @ \cup {current_url},
                                         !.requested = Append(@, Request(current_url, "loop")),
                                         !.pc = "fetch"]
    /\ UNCHANGED <<jobVars, resolver, discovery, titles, norm>>

\* grand_spider.py lines 549-551, 560-561, 603-604: the request fails, the page is
\* no HTML, or the browser times out or fails on it
GrandSpiderFetchFails ==
    /\ crawl.pc = "fetch" /\ crawl.variant \in GrandSpiderCrawlers
    /\ crawl' = [crawl EXCEPT !.pc = "loop"]
    /\ UNCHANGED <<jobVars, resolver, discovery, titles, norm>>

\* grand_spider.py lines 551-559, 588-602
GrandSpiderHarvests ==
    /\ crawl.pc = "fetch" /\ crawl.variant \in GrandSpiderCrawlers
    /\ \E links \in LinkLists :
         crawl' = [crawl EXCEPT
                     !.pc = "loop",
                     !.found_pages_details = Append(@, crawl.current_url),
                     !.hosts_linked = @ \cup {netloc(l) : l \in Range(links)},
                     !.repeat_linked = @ \/ LinksKnownUrl({StripFragment(l) : l \in Range(links)}, crawl),
                     !.queue = AddLinks(@, links, crawl)]
    /\ UNCHANGED <<jobVars, resolver, discovery, titles, norm>>

\* grand_spider.py lines 543, 562, 582
GrandSpiderReturn ==
    /\ crawl.pc = "loop" /\ crawl.variant \in GrandSpiderCrawlers
    /\ ~(/\ crawl.queue # <<>>
          /\ WithinBudget(Len(crawl.found_pages_details), crawl.max_pages_to_discover))
    /\ crawl' = [crawl EXCEPT !.pc = IF crawl.variant \in BrowserCrawlers
                                     THEN "finally" ELSE "returned"]
    /\ UNCHANGED <<jobVars, resolver, discovery, titles, norm>>

CrawlNext ==
    \/ SimpleSeed \/ SeleniumSeed \/ SeleniumRaises \/ SeleniumEscapes \/ SeleniumFinally
    \/ Dequeue \/ FetchFails \/ FetchHarvests \/ LinkRaises \/ CrawlReturn
    \/ GrandSpiderSeed \/ GrandSpiderPop \/ GrandSpiderFetchFails
    \/ GrandSpiderHarvests \/ GrandSpiderReturn

CrawlSpec == CrawlInit /\ [][CrawlNext]_vars

\* the crawl runs on the worker's thread, every request has a timeout (282) and the
\* browser a page-load timeout (314): a step that can be taken is taken
FairCrawlSpec == CrawlSpec /\ WF_vars(CrawlNext)

\* ================================================================ link normalisation
\* lines 273, 299, 337: urljoin(current_url, href), then
\* urlparse(...)._replace(fragment="", query="").geturl().  A URL is what urlparse
\* reads of it; its path is the list path.split('/'), so "/a/b" is <<"", "a", "b">>,
\* "/" is <<"", "">> and the empty path is <<"">>.
Url(scheme, netloc_, path, query, fragment) ==
    [scheme |-> scheme, netloc |-> netloc_, path |-> path, query |-> query,
     fragment |-> fragment]

\* urlunparse followed by urlparse: behind a host a path gets its leading slash
Reparsed(u) ==
    IF u.netloc # "" /\ u.path # <<"">> /\ u.path[1] # ""
    THEN [u EXCEPT !.path = <<"">> \o @] ELSE u

\* urljoin: the dot segments of the merged path, left to right
RECURSIVE ResolveDots(_, _)
ResolveDots(segments, resolved_path) ==
    IF segments = <<>> THEN resolved_path
    ELSE LET seg == Head(segments)
         IN ResolveDots(Tail(segments),
                IF seg = ".."
                THEN (IF resolved_path = <<>> THEN <<>>
                      ELSE SubSeq(resolved_path, 1, Len(resolved_path) - 1))
                ELSE IF seg = "." THEN resolved_path
                ELSE Append(resolved_path, seg))

\* urljoin: the path of url against the path of base
MergedPath(bpath, path) ==
    LET base_parts == IF Last(bpath) # "" THEN SubSeq(bpath, 1, Len(bpath) - 1) ELSE bpath
        joined == base_parts \o path
        segments ==
            IF path[1] = "" /\ Len(path) > 1 THEN path
            ELSE IF Len(joined) <= 2 THEN joined
            ELSE <<joined[1]>> \o
                 SelectSeq(SubSeq(joined, 2, Len(joined) - 1), LAMBDA seg : seg # "") \o
                 <<Last(joined)>>
        dotted == ResolveDots(segments, <<>>)
        resolved_path == IF Last(segments) \in {".", ".."} THEN Append(dotted, "") ELSE dotted
    IN IF resolved_path \in {<<>>, <<"">>} THEN <<"", "">> ELSE resolved_path

\* urllib.parse.urljoin(base, url) for a base with scheme and host
urljoin(base, url) ==
    LET scheme == IF url.scheme = "" THEN base.scheme ELSE url.scheme
    IN IF url = Url("", "", <<"">>, "", "") THEN base
       ELSE IF scheme # base.scheme \/ scheme \notin {"http", "https"} THEN url
       ELSE IF url.netloc # "" THEN Reparsed([url EXCEPT !.scheme = scheme])
       ELSE IF url.path = <<"">>
            THEN [base EXCEPT !.query = IF url.query = "" THEN @ ELSE url.query,
                              !.fragment = url.fragment]
       ELSE Reparsed(Url(scheme, base.netloc, MergedPath(base.path, url.path),
                         url.query, url.fragment))

\* variant: the last segment of the path goes with the query
ReplaceQueryAndFragment_CutsPath(u) ==
    [u EXCEPT !.query = "", !.fragment = "",
              !.path = IF Len(@) > 2 THEN SubSeq(@, 1, Len(@) - 1) ELSE @]

\* urlparse(absolute_url)._replace(fragment="", query="").geturl()
ReplaceQueryAndFragment(u) == Reparsed([u EXCEPT !.query = "", !.fragment = ""])

\* lines 273, 299, 337
AbsoluteUrl(current_url, href) == ReplaceQueryAndFragment(urljoin(current_url, href))

PagePaths == {<<"", "">>, <<"", "a">>, <<"", "a", "b">>, <<"", "a", "">>}
LinkPaths == PagePaths \cup
    {<<"">>, <<"b">>, <<"..", "b">>, <<".">>, <<"..">>, <<"..", "..", "b">>,
     <<"", "a", "..", "b">>, <<"b", "", "c">>}
CurrentUrls == {Url("https", "site", p, q, "") : p \in PagePaths, q \in {"", "q=1"}}
\* behind a host the path is empty or starts with a slash
LinkHrefs ==
    {u \in {Url(s, h, p, q, f) :
               s \in {"", "https"}, h \in {"", "site", "elsewhere"}, p \in LinkPaths,
               q \in {"", "q=1"}, f \in {"", "top"}} :
        u.netloc # "" => u.path[1] = ""} \cup
    {Url("http", "site", <<"", "a">>, "q=1", "top"),
     Url("mailto", "", <<"someone@site">>, "subject=hello", "")}

NormCall(current_url, href) ==
    [pc |-> "href", current_url |-> current_url, href |-> href]

NormInit ==
    /\ JobInit
    /\ probe = ProbeOff
    /\ crawl = CrawlOff
    /\ resolver = ResolverOff
    /\ discovery = DiscoveryOff
    /\ titles = TitlesOff
    /\ norm \in {NormCall(current_url, href) :
                    current_url \in CurrentUrls, href \in LinkHrefs}

\* the link of a page is made absolute and loses query and fragment
NormalizeLink ==
    /\ norm.pc = "href"
    /\ norm' = [pc |-> "once", current_url |-> norm.current_url, href |-> norm.href,
                once |-> AbsoluteUrl(norm.current_url, norm.href)]
    /\ UNCHANGED <<jobVars, crawl, resolver, discovery, titles>>

\* the URL it gave is a link of some page of the site and goes through again
NormalizeAgain ==
    /\ norm.pc = "once"
    /\ \E current_url \in CurrentUrls :
         norm' = [pc |-> "twice", current_url |-> current_url, href |-> norm.href,
                  once |-> norm.once, twice |-> AbsoluteUrl(current_url, norm.once)]
    /\ UNCHANGED <<jobVars, crawl, resolver, discovery, titles>>

NormNext == NormalizeLink \/ NormalizeAgain

NormSpec == NormInit /\ [][NormNext]_vars

\* ================================================================ sitemap resolver
\* find_sitemap_urls.  The sitemaps of the site are a graph drawn at the call: every
\* sitemap whose URL ends in .xml is missing or lists some of the others, one page of
\* the site and one page of another host.
SitemapXml == "https://site/sitemap.xml"
SitemapIndexXml == "https://site/sitemap_index.xml"
SitemapPhp == "https://site/sitemap.php"
SitemapTxt == "https://site/sitemap.txt"
NestedXml == "https://site/nested.xml"

\* line 187, each joined to base_url (line 189)
common_sitemaps == <<SitemapXml, SitemapIndexXml, SitemapPhp, SitemapTxt>>
XmlSitemaps == {SitemapXml, SitemapIndexXml, NestedXml}
SitemapUrls == XmlSitemaps \cup {SitemapPhp, SitemapTxt}

\* the page of the site a sitemap lists, and the page of another host it lists
PageOf(sitemap_url) ==
    CASE sitemap_url = SitemapXml -> "https://site/from-sitemap"
      [] sitemap_url = SitemapIndexXml -> "https://site/from-index"
      [] sitemap_url = NestedXml -> "https://site/from-nested"
      [] sitemap_url = SitemapTxt -> "https://site/from-txt"
      [] OTHER -> "https://site/from-php"
ForeignPageOf(sitemap_url) ==
    CASE sitemap_url = SitemapXml -> "https://elsewhere/from-sitemap"
      [] sitemap_url = SitemapIndexXml -> "https://elsewhere/from-index"
      [] sitemap_url = NestedXml -> "https://elsewhere/from-nested"
      [] sitemap_url = SitemapTxt -> "https://elsewhere/from-txt"
      [] OTHER -> "https://elsewhere/from-php"

\* a <loc> value that urlparse rejects with ValueError (a '[' without its ']' in
\* the host part)
UnparsableLoc == "http://[site/from-php"
UrlparseRaises(u) == u = UnparsableLoc

\* ext_url.endswith('.xml'), sitemap_url.endswith('.txt')
EndsWithXml(u) == u \in XmlSitemaps
EndsWithTxt(u) == u = SitemapTxt
\* urlparse(u).netloc == urlparse(base_url).netloc
OnBaseNetloc(u) == u \in SitemapUrls \cup {PageOf(s) : s \in SitemapUrls}

\* the <sitemap> entries a document can have: any of the .xml sitemaps
NestedLists ==
    {SelectSeq(<<SitemapXml, SitemapIndexXml, NestedXml>>, LAMBDA u : u \in S) :
        S \in SUBSET XmlSitemaps}

\* what a request of a sitemap URL yields: no usable response (a status other than
\* 200, a RequestException) or a document of some content type.  An XML document
\* has <sitemap><loc> entries and <url><loc> entries, or cannot be parsed; the lines
\* of a text document are kept as url_locs.
Missing == [status |-> 404]
Served(content_type, sitemap_locs, url_locs) ==
    [status |-> 200, content_type |-> content_type, well_formed |-> TRUE,
     sitemap_locs |-> sitemap_locs, url_locs |-> url_locs]
Malformed == [Served("xml", <<>>, <<>>) EXCEPT !.well_formed = FALSE]
\* the sitemap index may name the sitemap of /sitemap.php as well
XmlDocs(sitemap_url) ==
    {Served("xml", nested \o also, <<PageOf(sitemap_url), ForeignPageOf(sitemap_url)>>) :
        nested \in NestedLists,
        also \in IF sitemap_url = SitemapIndexXml THEN {<<>>, <<SitemapPhp>>} ELSE {<<>>}}
SitemapGraphs ==
    {g \in [XmlSitemaps -> {Missing, Malformed} \cup UNION {XmlDocs(u) : u \in XmlSitemaps}] :
        \A u \in XmlSitemaps : g[u] \in {Missing, Malformed} \/ g[u] \in XmlDocs(u)}

\* lines 163-173: every <loc> of the document, then those of its <sitemap> entries
\* once more; nothing when the document cannot be parsed
get_sitemap_urls_from_xml(response) ==
    IF response.well_formed
    THEN response.sitemap_locs \o response.url_locs \o response.sitemap_locs
    ELSE <<>>
\* robots.txt: the URLs of its Sitemap: lines (none when it cannot be fetched)
RobotsFiles == {<<>>, <<SitemapXml>>, <<NestedXml, SitemapXml>>, <<NestedXml, NestedXml>>}

\* the response to a request of sitemap_url
Responses(web, sitemap_url) ==
    CASE sitemap_url \in XmlSitemaps -> {web[sitemap_url]}
      [] sitemap_url = SitemapTxt ->
            {Missing,
             Served("text/plain", <<>>, <<PageOf(SitemapTxt), ForeignPageOf(SitemapTxt)>>)}
      [] OTHER ->
            {Missing, Served("text/html", <<>>, <<>>),
             Served("xml", <<>>, <<PageOf(SitemapPhp), ForeignPageOf(SitemapPhp)>>),
             Served("xml", <<>>, <<PageOf(SitemapPhp), UnparsableLoc>>)}

IsUnprocessed_Always(sitemap_url, processed_sitemap_urls) == TRUE

\* lines 185, 190, 200: the sitemap URL was not seen before
IsUnprocessed(sitemap_url, processed_sitemap_urls) == sitemap_url \notin processed_sitemap_urls

EnqueueSitemap_Unmarked(r, sitemap_url) ==
    IF IsUnprocessed(sitemap_url, r.processed_sitemap_urls)
    THEN [r EXCEPT !.sitemap_paths_to_check = Append(@, sitemap_url)]
    ELSE r

\* lines 185, 190, 200: a sitemap URL joins the work queue once
EnqueueSitemap(r, sitemap_url) ==
    IF IsUnprocessed(sitemap_url, r.processed_sitemap_urls)
    THEN [r EXCEPT !.sitemap_paths_to_check = Append(@, sitemap_url),
                   !.processed_sitemap_urls = @ \cup {sitemap_url}]
    ELSE r

\* lines 182-185, 188-190: every URL of a list is offered to the queue
RECURSIVE EnqueueSitemaps(_, _)
EnqueueSitemaps(r, sitemap_urls) ==
    IF sitemap_urls = <<>> THEN r
    ELSE EnqueueSitemaps(EnqueueSitemap(r, Head(sitemap_urls)), Tail(sitemap_urls))

\* lines 199-201: the entries of an XML sitemap; the ValueError of urlparse is not
\* a RequestException, so line 206 does not catch it and it leaves the function
RECURSIVE ExpandXml(_, _)
ExpandXml(r, extracted_urls) ==
    IF extracted_urls = <<>> THEN r
    ELSE LET ext_url == Head(extracted_urls)
             after ==
                 IF EndsWithXml(ext_url) /\ IsUnprocessed(ext_url, r.processed_sitemap_urls)
                 THEN EnqueueSitemap(r, ext_url)
                 ELSE IF ~EndsWithXml(ext_url) /\ OnBaseNetloc(ext_url)
                      THEN [r EXCEPT !.final_page_urls = @ \cup {ext_url}]
                      ELSE r
         IN IF ~EndsWithXml(ext_url) /\ UrlparseRaises(ext_url)
            THEN [r EXCEPT !.pc = "raised"]
            ELSE ExpandXml(after, Tail(extracted_urls))

\* lines 203-205: the lines of a plain-text sitemap
ExpandText(r, lines) ==
    IF \E l \in Range(lines) : UrlparseRaises(l)
    THEN [r EXCEPT !.pc = "raised"]
    ELSE [r EXCEPT !.final_page_urls = @ \cup {l \in Range(lines) : OnBaseNetloc(l)}]

\* lines 195-205: what a response adds to the queue and to the result
Expand(r, sitemap_url, response) ==
    IF response.status # 200 THEN r
    ELSE IF response.content_type = "xml" \/ EndsWithXml(sitemap_url)
         THEN ExpandXml(r, get_sitemap_urls_from_xml(response))
         ELSE IF response.content_type = "text/plain" \/ EndsWithTxt(sitemap_url)
              THEN ExpandText(r, response.url_locs)
              ELSE r

\* line 177: the locals of a call on the site whose sitemaps are web.  Three fields
\* are history: robots, the Sitemap: lines that were read, fetched, the sitemap URLs
\* requested so far, and got, the response to each of them.
ResolveCall(web) ==
    [pc |-> "robots", web |-> web, sitemap_paths_to_check |-> <<>>,
     final_page_urls |-> {}, processed_sitemap_urls |-> {},
     sitemap_url |-> "None", robots |-> <<>>, fetched |-> <<>>, got |-> <<>>]

ResolveInit ==
    /\ JobInit
    /\ probe = ProbeOff
    /\ crawl = CrawlOff
    /\ discovery = DiscoveryOff
    /\ titles = TitlesOff
    /\ norm = NormOff
    /\ resolver \in {ResolveCall(web) : web \in SitemapGraphs}

\* lines 178-186
ReadRobots ==
    /\ resolver.pc = "robots"
    /\ \E lines \in RobotsFiles :
         resolver' = [EnqueueSitemaps(resolver, lines) EXCEPT !.pc = "common",
                                                              !.robots = lines]
    /\ UNCHANGED <<jobVars, crawl, discovery, titles, norm>>

\* lines 187-190
EnqueueCommon ==
    /\ resolver.pc = "common"
    /\ resolver' = [EnqueueSitemaps(resolver, common_sitemaps) EXCEPT !.pc = "loop"]
    /\ UNCHANGED <<jobVars, crawl, discovery, titles, norm>>

\* lines 191-192
PopSitemap ==
    /\ resolver.pc = "loop"
    /\ resolver.sitemap_paths_to_check # <<>>
    /\ resolver' = [resolver EXCEPT !.pc = "fetch",
                                    !.sitemap_url = Head(resolver.sitemap_paths_to_check),
                                    !.sitemap_paths_to_check = Tail(@)]
    /\ UNCHANGED <<jobVars, crawl, discovery, titles, norm>>

\* lines 193-206
FetchSitemap ==
    /\ resolver.pc = "fetch"
    /\ \E response \in Responses(resolver.web, resolver.sitemap_url) :
         resolver' = [Expand(resolver, resolver.sitemap_url, response) EXCEPT
                        !.pc = IF @ = "raised" THEN "raised" ELSE "loop",
                        !.fetched = Append(@, resolver.sitemap_url),
                        !.got = Append(@, response)]
    /\ UNCHANGED <<jobVars, crawl, discovery, titles, norm>>

\* lines 191, 207-208
ResolveReturn ==
    /\ resolver.pc = "loop"
    /\ resolver.sitemap_paths_to_check = <<>>
    /\ resolver' = [resolver EXCEPT !.pc = "returned"]
    /\ UNCHANGED <<jobVars, crawl, discovery, titles, norm>>

ResolveNext == ReadRobots \/ EnqueueCommon \/ PopSitemap \/ FetchSitemap \/ ResolveReturn

ResolveSpec == ResolveInit /\ [][ResolveNext]_vars

\* the call runs on its own thread and every request has a timeout (lines 180, 194):
\* a step that can be taken is taken
FairResolveSpec == ResolveSpec /\ WF_vars(ResolveNext)

\* ================================================================ core-page probe
\* probe_core_pages slug by slug.  given is the map the call was handed, requested
\* the candidate URLs it fetched and tried the slugs it has taken, all three history;
\* fetched is what the last fetch brought: "raise" (fetch_url_html_content raises
\* ConnectionError), "empty" (a body of no characters) or the page's html.
\* line 240: the slugs in sorted order; line 242 makes a candidate URL of each
unique_paths == <<"about", "contact", "faq">>
ProbeFetches == {"raise", "empty", "html"}
\* the records the map may hold for a candidate before the probe
ProbeKnown(u) ==
    {Page(u, t, "sitemap_found", h) : t \in {"N/A", "sitemap"}, h \in {"none", "html"}}
ProbeMaps ==
    {m \in [Range(unique_paths) -> {NoneT} \cup UNION {ProbeKnown(u) : u \in Range(unique_paths)}] :
        \A u \in Range(unique_paths) : m[u] = NoneT \/ m[u].url = u}

ProbeCall(known) ==
    LET given == [u \in {v \in DOMAIN known : known[v] # NoneT} \cup {BaseUrl} |->
                    IF u = BaseUrl THEN Page(u, "seed", "lang_detect_fetch", "none")
                    ELSE known[u]]
    IN [pc |-> "L241", paths |-> unique_paths, candidate_url |-> "None",
        existing_pages_map |-> given, probed_pages_details_newly_found |-> <<>>,
        given |-> given, requested |-> <<>>, tried |-> <<>>, fetched |-> "None"]

ProbeInit ==
    /\ JobInit
    /\ crawl = CrawlOff
    /\ resolver = ResolverOff
    /\ discovery = DiscoveryOff
    /\ titles = TitlesOff
    /\ norm = NormOff
    /\ probe \in {ProbeCall(known) : known \in ProbeMaps}

ProbeFrame ==
    UNCHANGED <<jobs, jobs_lock, pc, w, poll, statusLog, calls, heard, submit,
                crawl, resolver, discovery, titles, norm>>

\* lines 241-244, 251: the next slug; a candidate the map holds with its html is
\* passed over, one it holds without html is fetched at 246, any other at 253
ProbeNextPath ==
    /\ probe.pc = "L241"
    /\ probe.paths # <<>>
    /\ LET candidate_url == Head(probe.paths)
           m == probe.existing_pages_map
           taken == [probe EXCEPT !.paths = Tail(@), !.tried = Append(@, candidate_url),
                                  !.candidate_url = candidate_url]
       IN probe' = IF candidate_url \in DOMAIN m
                   THEN IF m[candidate_url].html_source = "none"
                        THEN [taken EXCEPT !.pc = "L246"]
                        ELSE taken
                   ELSE [taken EXCEPT !.pc = "L253"]
    /\ ProbeFrame

\* variant: a failed fetch of a known page ends the probe
AfterBackfill_EndsOnFailure(fetched) == IF fetched = "raise" THEN "L261" ELSE "L241"

\* lines 250-251: `except Exception: pass`, then `continue`
AfterBackfill(fetched) == "L241"

\* lines 245-251: the page of a known candidate without html is fetched; html that
\* came is stored, and its title where the record had none
ProbeBackfill ==
    /\ probe.pc = "L246"
    /\ \E fetched \in ProbeFetches, title \in {"N/A", "probe"} :
         LET u == probe.candidate_url
             asked == [probe EXCEPT !.requested = Append(@, u), !.fetched = fetched,
                                    !.pc = AfterBackfill(fetched)]
         IN probe' = IF fetched = "html"
                     THEN [asked EXCEPT
                             !.existing_pages_map[u].html_source = fetched,
                             !.existing_pages_map[u].title = IF @ = "N/A" THEN title ELSE @]
                     ELSE asked
    /\ ProbeFrame

\* lines 252-260: a candidate the map does not hold is fetched; a page that came is
\* a new record of the map and of the returned list
ProbeFetch ==
    /\ probe.pc = "L253"
    /\ \E fetched \in ProbeFetches, title \in {"N/A", "probe"} :
         LET u == probe.candidate_url
             m == probe.existing_pages_map
             page_data == Page(u, title, "found_by_probe", fetched)
             asked == [probe EXCEPT !.requested = Append(@, u), !.fetched = fetched,
                                    !.pc = "L241"]
         IN probe' = IF fetched = "html"
                     THEN [asked EXCEPT
                             !.existing_pages_map =
                                 [v \in DOMAIN m \cup {u} |-> IF v = u THEN page_data ELSE m[v]],
                             !.probed_pages_details_newly_found = Append(@, page_data)]
                     ELSE asked
    /\ ProbeFrame

\* line 261
ProbeReturn ==
    /\ probe.pc = "L241"
    /\ probe.paths = <<>>
    /\ probe' = [probe EXCEPT !.pc = "L261"]
    /\ ProbeFrame

ProbeNext == ProbeNextPath \/ ProbeBackfill \/ ProbeFetch \/ ProbeReturn

ProbeSpec == ProbeInit /\ [][ProbeNext]_vars

\* ================================================================ discovery aggregate
\* lines 574-613 of run_knowledge_base_job strategy by strategy, with the titles
\* and html each strategy brings; `reported` holds what the strategy that ran
\* last returned
\* a sitemap entry for the probed page that carries a query string
AboutWithQuery == "about?ref=nav"
SitemapListings == SUBSET (Urls \cup {AboutWithQuery}) \cup {Urls \cup MorePages}

\* what get_page_title_from_html reads in a page one strategy fetched
TitlesRead(strategy) == {"N/A", strategy}

Reported(u, title, html) == [url |-> u, title |-> title, html_source |-> html]

DiscoveryCall(use_selenium) ==
    [pc |-> "L574", use_selenium |-> use_selenium,
     all_discovered_pages_map |-> NoPages, reported |-> {}]

DiscoveryInit ==
    /\ JobInit
    /\ probe = ProbeOff
    /\ crawl = CrawlOff
    /\ resolver = ResolverOff
    /\ titles = TitlesOff
    /\ norm = NormOff
    /\ discovery \in {DiscoveryCall(use_selenium) : use_selenium \in BOOLEAN}

DiscoveryStep(label, m, reported) ==
    /\ discovery' = [discovery EXCEPT !.pc = label, !.all_discovered_pages_map = m,
                                      !.reported = reported]
    /\ UNCHANGED <<jobVars, crawl, resolver, titles, norm>>

\* lines 574-579
DiscoverySeed ==
    /\ discovery.pc = "L574"
    /\ \E fetched \in BOOLEAN, title \in TitlesRead("seed") :
         IF fetched
         THEN DiscoveryStep("L589",
                  [u \in {BaseUrl} |-> Page(u, title, "lang_detect_fetch", "none")],
                  {Reported(BaseUrl, title, "none")})
         ELSE DiscoveryStep("L589", NoPages, {})

\* lines 589-592
DiscoverySitemaps ==
    /\ discovery.pc = "L589"
    /\ \E sitemap_urls \in SitemapListings :
         DiscoveryStep("L593",
             AddSitemapUrls(discovery.all_discovered_pages_map, sitemap_urls),
             {Reported(u, "N/A", "none") : u \in sitemap_urls})

\* line 593: the probe fetches its candidate unless the map has its html
DiscoveryProbe ==
    /\ discovery.pc = "L593"
    /\ LET m == discovery.all_discovered_pages_map
           asked == ProbeCandidate \notin DOMAIN m \/ m[ProbeCandidate].html_source = "none"
       IN \E fetched \in ProbeOutcomes, title \in TitlesRead("probe") :
            DiscoveryStep("L594", probe_core_pages(m, fetched, title),
                IF asked /\ fetched # "fail"
                THEN {Reported(ProbeCandidate, title, fetched)} ELSE {})

\* lines 594-600
DiscoveryTitles ==
    /\ discovery.pc = "L594"
    /\ LET m == discovery.all_discovered_pages_map
       IN \E titled \in SUBSET (urls_needing_titles(m) \cap (Urls \cup {AboutWithQuery})),
             title \in TitlesRead("title fetch") :
            DiscoveryStep("L602", ApplyTitles(m, titled, title),
                          {Reported(u, title, "none") : u \in titled})

\* lines 602-613: the crawlers report URLs without query and fragment
DiscoveryFallback ==
    /\ discovery.pc = "L602"
    /\ NeedsFallbackCrawl(discovery.all_discovered_pages_map)
    /\ LET html == IF discovery.use_selenium THEN "html" ELSE "none"
           status == IF discovery.use_selenium THEN "found_by_selenium_discovery"
                     ELSE "found_by_simple_fallback_crawl"
       IN \E crawled \in SUBSET Urls, title \in TitlesRead("crawl") :
            DiscoveryStep("L616",
                MergeFallback(discovery.all_discovered_pages_map, crawled, status, html, title),
                {Reported(u, title, html) : u \in crawled})

\* line 602: enough pages, no crawl
DiscoverySkipsFallback ==
    /\ discovery.pc = "L602"
    /\ ~NeedsFallbackCrawl(discovery.all_discovered_pages_map)
    /\ DiscoveryStep("L616", discovery.all_discovered_pages_map, {})

DiscoveryNext ==
    \/ DiscoverySeed \/ DiscoverySitemaps \/ DiscoveryProbe \/ DiscoveryTitles
    \/ DiscoveryFallback \/ DiscoverySkipsFallback

DiscoverySpec == DiscoveryInit /\ [][DiscoveryNext]_vars

\* ================================================================ title fetch
\* fetch_titles_for_urls, lines 210-232: the calling thread starts one thread per
\* URL and joins them in batches; a thread is known by the place of its URL in the
\* list, and results_lock holds the thread that has it, or 0.  succeeded and joined
\* are history.
TitleTargets ==
    <<"site/t1", "site/t2", "site/t3", "site/t4", "site/t5", "elsewhere/x", "site/t6",
      "site/t7">>
TitleRequests == {SubSeq(TitleTargets, 1, n) : n \in {0, 3, 5, 7, 8}}

\* line 226: urlparse(url).netloc != base_url_domain
OffDomain(url) == url = "elsewhere/x"

TitlesCall(urls_to_fetch_title) ==
    [pc |-> "loop",
     urls_to_process_for_title |->
         PySliceTo(urls_to_fetch_title, MAX_URLS_FROM_SITEMAP_TO_PROCESS_TITLES),
     next |-> 1, threads |-> <<>>, joining |-> <<>>,
     thread |-> [t \in 1 .. Len(urls_to_fetch_title) |-> "unstarted"],
     results_lock |-> 0, pages_with_titles |-> <<>>,
     succeeded |-> {}, joined |-> {}]

TitlesInit ==
    /\ JobInit
    /\ probe = ProbeOff
    /\ crawl = CrawlOff
    /\ resolver = ResolverOff
    /\ discovery = DiscoveryOff
    /\ norm = NormOff
    /\ titles \in {TitlesCall(urls) : urls \in TitleRequests}

\* variant: the batch is never found full
BatchIsFull_Never(threads) == FALSE

\* line 228
BatchIsFull(threads) == Len(threads) >= MAX_TITLE_FETCH_THREADS

\* lines 225-228: the next URL is skipped or gets its thread
TitlesSpawn ==
    /\ titles.pc = "loop"
    /\ titles.next <= Len(titles.urls_to_process_for_title)
    /\ LET t == titles.next
           threads == Append(titles.threads, t)
       IN titles' =
            IF OffDomain(titles.urls_to_process_for_title[t])
            THEN [titles EXCEPT !.next = t + 1]
            ELSE IF BatchIsFull(threads)
                 THEN [titles EXCEPT !.next = t + 1, !.thread[t] = "running",
                                     !.threads = <<>>, !.joining = threads,
                                     !.pc = "join_batch"]
                 ELSE [titles EXCEPT !.next = t + 1, !.thread[t] = "running",
                                     !.threads = threads]
    /\ UNCHANGED <<jobVars, crawl, resolver, discovery, norm>>

\* lines 229 and 230: t.join() returns once the thread has ended
TitlesJoin ==
    /\ titles.pc \in {"join_batch", "join_rest"}
    /\ titles.joining # <<>>
    /\ titles.thread[Head(titles.joining)] = "ended"
    /\ titles' = [titles EXCEPT !.joining = Tail(@), !.joined = @ \cup {Head(titles.joining)}]
    /\ UNCHANGED <<jobVars, crawl, resolver, discovery, norm>>

\* line 229: the batch is joined and the loop goes on
TitlesBatchJoined ==
    /\ titles.pc = "join_batch" /\ titles.joining = <<>>
    /\ titles' = [titles EXCEPT !.pc = "loop"]
    /\ UNCHANGED <<jobVars, crawl, resolver, discovery, norm>>

\* line 230: no URL is left; the threads of the last batch are joined
TitlesLoopEnds ==
    /\ titles.pc = "loop"
    /\ titles.next > Len(titles.urls_to_process_for_title)
    /\ titles' = [titles EXCEPT !.pc = "join_rest", !.joining = titles.threads]
    /\ UNCHANGED <<jobVars, crawl, resolver, discovery, norm>>

\* lines 231-232
TitlesReturn ==
    /\ titles.pc = "join_rest" /\ titles.joining = <<>>
    /\ titles' = [titles EXCEPT !.pc = "returned"]
    /\ UNCHANGED <<jobVars, crawl, resolver, discovery, norm>>

\* lines 214-216, 222: the request fails, the page is no HTML, or reading it raises
TitleFetchFails ==
    /\ \E t \in DOMAIN titles.thread :
         /\ titles.thread[t] = "running"
         /\ titles' = [titles EXCEPT !.thread[t] = "ended"]
    /\ UNCHANGED <<jobVars, crawl, resolver, discovery, norm>>

\* lines 214-220: the page arrived and its title was read
TitleFetched ==
    /\ \E t \in DOMAIN titles.thread :
         /\ titles.thread[t] = "running"
         /\ titles' = [titles EXCEPT !.thread[t] = "fetched", !.succeeded = @ \cup {t}]
    /\ UNCHANGED <<jobVars, crawl, resolver, discovery, norm>>

\* line 221: with results_lock
TitleLocks ==
    /\ \E t \in DOMAIN titles.thread :
         /\ titles.thread[t] = "fetched"
         /\ titles.results_lock = 0
         /\ titles' = [titles EXCEPT !.thread[t] = "locked", !.results_lock = t]
    /\ UNCHANGED <<jobVars, crawl, resolver, discovery, norm>>

\* line 221: the append, and the lock is released
TitleAppends ==
    /\ \E t \in DOMAIN titles.thread :
         /\ titles.thread[t] = "locked"
         /\ titles' = [titles EXCEPT
                          !.thread[t] = "ended", !.results_lock = 0,
                          !.pages_with_titles = Append(@, titles.urls_to_process_for_title[t])]
    /\ UNCHANGED <<jobVars, crawl, resolver, discovery, norm>>

TitlesNext ==
    \/ TitlesSpawn \/ TitlesJoin \/ TitlesBatchJoined \/ TitlesLoopEnds \/ TitlesReturn
    \/ TitleFetchFails \/ TitleFetched \/ TitleLocks \/ TitleAppends

TitlesSpec == TitlesInit /\ [][TitlesNext]_vars

\* ================================================================ claims
Polled(j) == poll.pc = "got" /\ poll.job = j
CallsOf(j, fn) == {k \in 1..Len(calls[j]) : calls[j][k].fn = fn}
Crawlers == {"simple_crawl_website", "selenium_crawl_website"}
\* the crawler calls of lines 607-608: those made before the selection call
DiscoveryCrawls(j) ==
    {k \in 1..Len(calls[j]) :
        /\ calls[j][k].fn \in Crawlers
        /\ \A s \in CallsOf(j, "select_relevant_pages_for_kb_with_openai") : k < s}
\* the crawler calls of line 653: those made after the selection call
ExtractionCrawls(j) ==
    {k \in 1..Len(calls[j]) : calls[j][k].fn \in Crawlers} \ DiscoveryCrawls(j)
\* the calls whose exception reached the handler of line 681: every call that
\* raised but the page fetches of line 653 and the extraction calls of line 660,
\* whose exceptions lines 656 and 665 catch
RaisedToHandler(j) ==
    {k \in 1..Len(calls[j]) : calls[j][k].raised}
        \ (ExtractionCrawls(j) \cup CallsOf(j, "extract_knowledge_from_page_with_openai"))

\* C1: the statuses written to a job's record, in the order of the writes, never go
\* back to an earlier stage of pending < detecting/discovering < selecting <
\* extracting < compiling < {completed, failed}, on any path of the worker.
C1_StatusWritesNeverGoBack ==
    \A j \in Started :
        /\ jobs[j].status = Last(statusLog[j])
        /\ \A a, b \in 1..Len(statusLog[j]) :
              a < b => Rank(statusLog[j][a]) <= Rank(statusLog[j][b])

\* a job that raised in the compilation step: failed is written by the handler and
\* again by the final block, after every earlier stage
C1_Witness ==
    \E j \in Started :
        statusLog[j] = <<"pending", "detecting_language", "discovering_pages",
                         "selecting_pages", "extracting_knowledge", "compiling_kb",
                         "failed", "failed">>

\* C2: completed and failed are absorbing: once a job's status in the registry is
\* completed or failed, no step of any thread changes it to another value.
C2_TerminalStatusIsAbsorbing ==
    [][\A j \in Started :
          jobs[j].status \in Terminal => jobs'[j].status = jobs[j].status]_vars

\* the handler has set failed and the final block has written the status once more
C2_Witness ==
    \E j \in Started :
        /\ pc[j] = "done"
        /\ Len(statusLog[j]) >= 2
        /\ statusLog[j][Len(statusLog[j]) - 1] = "failed"
        /\ jobs[j].status = "failed"

\* C3: a completed job has its final_knowledge_base set and its error unset, and a
\* poll that answers completed carries the final knowledge base in full.
C3_CompletedHasResultAndNoError ==
    \A j \in Started :
        /\ jobs[j].status = "completed" =>
              /\ jobs[j].final_knowledge_base # NoneT
              /\ jobs[j].error = NoneT
        /\ (Polled(j) /\ PollResponse.status = "completed") =>
              /\ PollResponse.final_knowledge_base = jobs[j].final_knowledge_base
              /\ PollResponse.final_knowledge_base \notin {NoneT, Absent}
              /\ PollResponse.error = NoneT

\* a poll copies a completed job whose knowledge base is longer than the preview
C3_Witness ==
    \E j \in Started :
        /\ Polled(j)
        /\ jobs[j].status = "completed"
        /\ jobs[j].final_knowledge_base.len > StatusPreviewChars

\* the messages of lines 619, 637 and 675
GiveUpMessages ==
    {MsgNoPagesDiscovered} \cup {MsgNoPagesSelected(l) : l \in Languages}
                           \cup {MsgNoPagesExtracted(l) : l \in Languages}

\* C4 as claimed: a failed job has its error set and its final_knowledge_base unset
\* (read on the states in which no thread is inside a critical section).
C4_FailedHasErrorAndNoResult ==
    \A j \in Started :
        (jobs_lock = "free" /\ jobs[j].status = "failed") =>
            /\ jobs[j].error # NoneT
            /\ jobs[j].final_knowledge_base = NoneT

\* C4 as amended: outside the worker's critical sections a failed job has its error
\* set, non-empty once the job is done; its final_knowledge_base is unset on the
\* exception path only, and on the three give-up paths (nothing discovered, selected or
\* extracted) it holds the same message as error.
C4_FailedHasErrorAndResultOnlyOnGiveUp ==
    \A j \in Started :
        (jobs_lock # j /\ jobs[j].status = "failed") =>
            /\ jobs[j].error # NoneT
            /\ pc[j] = "done" => Truthy(jobs[j].error)
            /\ jobs[j].final_knowledge_base = w[j].final_knowledge_base
            /\ \/ /\ jobs[j].final_knowledge_base = NoneT
                  /\ RaisedToHandler(j) # {}
               \/ /\ jobs[j].final_knowledge_base = jobs[j].error
                  /\ jobs[j].error \in GiveUpMessages
                  /\ RaisedToHandler(j) = {}

\* a job that extracted nothing is done: failed, with the message in both fields
C4_Witness ==
    \E j \in Started :
        /\ pc[j] = "done"
        /\ jobs[j].status = "failed"
        /\ jobs[j].error = MsgNoPagesExtracted(w[j].target_language)
        /\ jobs[j].final_knowledge_base = jobs[j].error

ReturnedCallsOf(j, fn) == {k \in CallsOf(j, fn) : ~calls[j][k].raised}
\* line 616 has run: the discovery stage is over
DiscoveryEnded(j) == jobs[j].crawler_used # "None"
\* the for loop of line 640 was entered and has been left
ExtractionEnded(j) ==
    /\ "extracting_knowledge" \in Range(statusLog[j])
    /\ pc[j] \notin {"L643", "L645", "L647", "L667", "L673"}
\* the per-page records that say the page was extracted
ExtractedRecords(details_list) == SelectSeq(details_list, LAMBDA r : r.status = "extracted")

\* C7: a job whose discovery ends with an empty aggregate never takes the selecting,
\* extracting or compiling status (nor completed), never calls the selection
\* collaborator, and ends failed straight after discovering_pages with the error
\* "Discovery phase found no pages."
C7_EmptyDiscoveryFailsDirectly ==
    \A j \in Started :
        (DiscoveryEnded(j) /\ w[j].all_discovered_pages_map = NoPages) =>
            /\ Range(statusLog[j]) \cap
                 {"selecting_pages", "extracting_knowledge", "compiling_kb", "completed"} = {}
            /\ CallsOf(j, "select_relevant_pages_for_kb_with_openai") = {}
            /\ pc[j] \notin {"L622", "L624", "L634", "L639", "L677", "L678", "L680"}
            /\ pc[j] = "done" =>
                 /\ jobs[j].status = "failed"
                 /\ jobs[j].error = MsgNoPagesDiscovered
                 /\ statusLog[j] = <<"pending", "detecting_language", "discovering_pages", "failed">>

C7_Witness ==
    \E j \in Started :
        /\ pc[j] = "done"
        /\ DiscoveryEnded(j)
        /\ w[j].all_discovered_pages_map = NoPages
        /\ jobs[j].initial_found_pages_count = 0
        /\ jobs[j].status = "failed"

\* C8: once the selection call has returned, a job with an empty selection never
\* takes the extracting or compiling status and ends failed with the error "AI
\* selected no relevant pages"; a job with a non-empty selection takes the
\* extracting status as its next status.  A reply that is no valid JSON, or that
\* names only URLs that were not offered, yields the empty selection.
C8_EmptySelectionFailsElseExtracts ==
    \A j \in Started :
        /\ pc[j] = "L624" =>
             \A reply \in SelectReplies :
                 (\/ reply.kind = "invalid_json"
                  \/ \A k \in 1..Len(reply.urls) :
                        reply.urls[k] \notin Offered(w[j].all_discovered_pages_map))
                 => select_relevant_pages_for_kb_with_openai(
                        Offered(w[j].all_discovered_pages_map), reply,
                        Min(w[j].max_pages_for_kb_processing, MAX_PAGES_FOR_KB_GENERATION)) = <<>>
        /\ ReturnedCallsOf(j, "select_relevant_pages_for_kb_with_openai") # {} =>
             IF w[j].selected_pages_for_processing_info = <<>>
             THEN /\ Range(statusLog[j]) \cap
                       {"extracting_knowledge", "compiling_kb", "completed"} = {}
                  /\ pc[j] \in {"L634", "L693", "L696", "L697", "done"}
                  /\ pc[j] = "done" =>
                       /\ jobs[j].status = "failed"
                       /\ jobs[j].error = MsgNoPagesSelected(w[j].target_language)
                       /\ Last(statusLog[j]) = "failed"
             ELSE /\ pc[j] \in {"L634", "L639"} => Last(statusLog[j]) = "selecting_pages"
                  /\ pc[j] \notin {"L634", "L639"} =>
                       \E k \in 2..Len(statusLog[j]) :
                           /\ statusLog[j][k - 1] = "selecting_pages"
                           /\ statusLog[j][k] = "extracting_knowledge"

C8_Witness ==
    \E j \in Started :
        /\ pc[j] = "done"
        /\ ReturnedCallsOf(j, "select_relevant_pages_for_kb_with_openai") # {}
        /\ w[j].all_discovered_pages_map # NoPages
        /\ w[j].selected_pages_for_processing_info = <<>>
        /\ jobs[j].pages_selected_for_kb_count = 0
        /\ jobs[j].error = MsgNoPagesSelected(w[j].target_language)

\* C9: when the extraction loop has ended and no page's record says extracted, the
\* job never takes the compiling status, never calls the compilation collaborator
\* and ends failed with the error "Failed to extract from any pages"; the compiling
\* status is only ever taken with at least one extracted chunk.
C9_NoChunkNoCompilation ==
    \A j \in Started :
        /\ (ExtractionEnded(j) /\ ExtractedRecords(jobs[j].knowledge_extraction_details) = <<>>) =>
             /\ "compiling_kb" \notin Range(statusLog[j])
             /\ "completed" \notin Range(statusLog[j])
             /\ CallsOf(j, "compile_final_knowledge_base_with_openai") = {}
             /\ pc[j] = "done" =>
                  /\ jobs[j].status = "failed"
                  /\ jobs[j].error = MsgNoPagesExtracted(w[j].target_language)
        /\ "compiling_kb" \in Range(statusLog[j]) =>
             /\ Len(w[j].extracted_knowledge_chunks) >= 1
             /\ jobs[j].intermediate_knowledge_chunks_count >= 1
             /\ ExtractedRecords(jobs[j].knowledge_extraction_details) # <<>>
        /\ CallsOf(j, "compile_final_knowledge_base_with_openai") # {} =>
             "compiling_kb" \in Range(statusLog[j])

C9_Witness ==
    \E j \in Started :
        /\ pc[j] = "done"
        /\ ExtractionEnded(j)
        /\ Len(w[j].selected_pages_for_processing_info) = 2
        /\ Len(jobs[j].knowledge_extraction_details) = 2
        /\ ExtractedRecords(jobs[j].knowledge_extraction_details) = <<>>
        /\ jobs[j].status = "failed"

\* C10: when the extraction loop has ended, every selected page has its own status
\* record, in selection order, saying extracted or failed_extraction with the
\* failure's error; the chunks handed to the compilation step are exactly those of
\* the extracted pages, in selection order; and a job with at least one extracted
\* page goes on to compilation and ends completed whenever the compilation step
\* returns, however many of its pages failed.
C10_PartialExtractionTolerance ==
    \A j \in Started :
        ExtractionEnded(j) =>
            LET sel == w[j].selected_pages_for_processing_info
                details_list == jobs[j].knowledge_extraction_details
                extracted == ExtractedRecords(details_list)
                successful == [k \in 1..Len(extracted) |-> [url |-> extracted[k].url]]
                compiled == CallsOf(j, "compile_final_knowledge_base_with_openai")
            IN /\ Len(details_list) = Len(sel)
               /\ \A k \in 1..Len(sel) :
                     /\ details_list[k].url = sel[k].url
                     /\ details_list[k].status \in {"extracted", "failed_extraction"}
                     /\ (details_list[k].status = "failed_extraction") = (details_list[k].error # "None")
               /\ w[j].extracted_knowledge_chunks = successful
               /\ \A c \in compiled : calls[j][c].chunks = successful
               /\ extracted # <<>> =>
                     /\ pc[j] \notin {"L677", "L678"} => Cardinality(compiled) = 1
                     /\ pc[j] = "done" =>
                          \A c \in compiled :
                              IF calls[j][c].raised
                              THEN jobs[j].status = "failed" /\ jobs[j].error = MsgCompilationFailed
                              ELSE /\ jobs[j].status = "completed"
                                   /\ jobs[j].error = NoneT
                                   /\ jobs[j].final_knowledge_base = w[j].final_knowledge_base
                                   /\ jobs[j].intermediate_knowledge_chunks_count = Len(successful)

C10_Witness ==
    \E j \in Started :
        /\ pc[j] = "done"
        /\ jobs[j].status = "completed"
        /\ Len(w[j].selected_pages_for_processing_info) = 2
        /\ jobs[j].knowledge_extraction_details[1].status = "failed_extraction"
        /\ jobs[j].knowledge_extraction_details[2].status = "extracted"
        /\ calls[j][Len(calls[j])].chunks =
             <<[url |-> w[j].selected_pages_for_processing_info[2].url]>>

\* ----------------------------------------------------------------- C11..C20
\* C11: once a job has taken the compiling status, it ends completed with the
\* string the compilation step returned as its final result, whatever that string
\* is (the "content too large" placeholder and the empty string included); it ends
\* failed only when the compilation step raised, and then with that exception's
\* message and no result.
C11_CompilationResultCompletes ==
    \A j \in Started :
        "compiling_kb" \in Range(statusLog[j]) =>
            LET compiled == CallsOf(j, "compile_final_knowledge_base_with_openai")
                returned == ReturnedCallsOf(j, "compile_final_knowledge_base_with_openai")
            IN /\ Cardinality(compiled) <= 1
               /\ "failed" \in Range(statusLog[j]) => compiled # returned
               /\ "completed" \in Range(statusLog[j]) => returned # {}
               /\ (returned # {} /\ pc[j] \notin {"L680"}) =>
                     jobs[j].final_knowledge_base = w[j].final_knowledge_base
               /\ pc[j] = "done" =>
                     IF returned # {}
                     THEN /\ jobs[j].status = "completed"
                          /\ jobs[j].error = NoneT
                          /\ w[j].final_knowledge_base # NoneT
                          /\ Polled(j) =>
                               PollResponse.final_knowledge_base = w[j].final_knowledge_base
                     ELSE /\ jobs[j].status = "failed"
                          /\ jobs[j].error = MsgCompilationFailed
                          /\ jobs[j].final_knowledge_base = NoneT

C11_Witness ==
    \E j \in Started :
        /\ pc[j] = "done"
        /\ w[j].final_knowledge_base = MsgContentTooLarge(w[j].target_language)
        /\ jobs[j].status = "completed"
        /\ jobs[j].final_knowledge_base = MsgContentTooLarge(w[j].target_language)
        /\ Polled(j)

\* the worker is at (about to run, or inside) a statement that fetches over the
\* network, drives the browser, joins threads or calls a model: lines 573-584 (main
\* page and language), 589-600 (sitemaps, probe, title threads), 605-608 (fallback
\* crawl), 624 (selection), 647-665 (page fetch and extraction), 678 (compilation)
BlockingLabels == {"L573", "L589", "L605", "L624", "L647", "L678"}
\* the worker is at a statement inside a `with jobs_lock:` block it has entered
InsideLockLabels == {"L645", "L673", "L687", "L696", "L697"}

\* C12: a worker holds jobs_lock only between the statements of one of its registry
\* blocks, never at a network, browser, thread-join or model call; whenever a worker
\* is at such a call the lock is free, so a status poll can take it; and the poll's
\* own copy and serialisation happen with the lock free of the poll.
C12_NoBlockingCallUnderLock ==
    /\ jobs_lock \in {"free"} \cup JobIds
    /\ \A j \in JobIds :
          /\ jobs_lock = j => pc[j] \in InsideLockLabels
          /\ pc[j] \in InsideLockLabels => jobs_lock = j
          /\ pc[j] \in BlockingLabels => jobs_lock # j
    /\ jobs_lock # "free" => pc[jobs_lock] \notin BlockingLabels

C12_Witness ==
    \E j \in Started :
        /\ pc[j] = "L647"
        /\ w[j].i = 2
        /\ jobs_lock = "free"
        /\ Polled(j)

\* the progress phrases the code writes together with each status (604 writes the
\* fallback phrase during discovering_pages, 643 the page phrase during extraction)
ProgressTextsOf(status) ==
    CASE status = "pending" -> {"Job accepted, pending start."}
      [] status = "detecting_language" -> {"Fetching main page for language detection..."}
      [] status = "discovering_pages" -> {"Discovering pages...", "Fallback crawl..."}
      [] status = "selecting_pages" -> {"AI selecting from discovered pages..."}
      [] status = "extracting_knowledge" -> {"Extracting page"}
      [] status = "compiling_kb" -> {"AI compiling chunks..."}
      [] status \in Terminal -> {"Job finished."}

\* C13: whenever no critical section is open, a job's progress phrase is one of its
\* current status, never one left over from an earlier stage: every write of a new
\* status comes with a progress write in the same critical section.
C13_StatusPairedWithItsProgress ==
    \A j \in Started :
        jobs_lock = "free" => jobs[j].progress.text \in ProgressTextsOf(jobs[j].status)

\* C14: a job record is read and written only by a thread that holds jobs_lock; in
\* particular the status poll takes its copy of the record while it still holds the
\* lock, so no worker is inside a critical section of its own at that moment.
C14_RecordCopiedUnderLock ==
    [][(poll.pc = "got" /\ poll'.pc = "idle") => jobs_lock \notin JobIds]_vars

\* C15: the record a status poll serialises is the job record as it stood when the
\* copy was taken: whatever the worker does between the copy and the serialisation,
\* the copy's knowledge_extraction_details still reads as it did at the copy.
C15_PollCopyIsASnapshot ==
    poll.pc = "copied" => job_copy_details = poll.job_copy.knowledge_extraction_details

\* the selected pages whose extraction has been attempted
Attempted(j) == IF pc[j] \in {"L643", "L645", "L647"} THEN w[j].i - 1 ELSE w[j].i
PageCount(j) == Cardinality(DOMAIN w[j].all_discovered_pages_map)

\* C16 as claimed: a job whose seed, sitemap and probe strategies found at least
\* MIN_DISCOVERED_PAGES_BEFORE_FALLBACK_CRAWL pages never calls a crawler, extraction
\* stage included.
C16_NoCrawlerAtOrAboveThreshold ==
    \A j \in Started :
        (/\ DiscoveryEnded(j)
         /\ PageCount(j) >= MIN_DISCOVERED_PAGES_BEFORE_FALLBACK_CRAWL
         /\ DiscoveryCrawls(j) = {}) =>
            \A k \in 1..Len(calls[j]) : calls[j][k].fn \notin Crawlers

\* C16 amended: the fallback crawl of the discovery stage runs exactly when fewer
\* than MIN_DISCOVERED_PAGES_BEFORE_FALLBACK_CRAWL pages were found, once, with the
\* crawler use_selenium chooses.  After discovery the only crawler calls are one-page
\* selenium_crawl_website calls of the extraction stage: one for every attempted page
\* that has no html and was not found by the probe, and only with use_selenium set.
C16_CrawlerOnlyBelowThresholdOrAsPageFetch ==
    \A j \in Started :
        LET sel == w[j].selected_pages_for_processing_info
            browser_fetched == {k \in 1..Attempted(j) :
                                   /\ sel[k].html_source = "none"
                                   /\ sel[k].status # "found_by_probe"}
        IN /\ pc[j] \in {"L604", "L605"} =>
                 PageCount(j) < MIN_DISCOVERED_PAGES_BEFORE_FALLBACK_CRAWL
           /\ (DiscoveryEnded(j) /\ DiscoveryCrawls(j) = {}) =>
                 PageCount(j) >= MIN_DISCOVERED_PAGES_BEFORE_FALLBACK_CRAWL
           /\ pc[j] \in {"L573", "L585", "L588", "L589", "L604", "L605"} =>
                 DiscoveryCrawls(j) = {}
           /\ Cardinality(DiscoveryCrawls(j)) <= 1
           /\ \A k \in DiscoveryCrawls(j) :
                 calls[j][k].fn = IF w[j].use_selenium THEN "selenium_crawl_website"
                                  ELSE "simple_crawl_website"
           /\ \A k \in ExtractionCrawls(j) : calls[j][k].fn = "selenium_crawl_website"
           /\ Cardinality(ExtractionCrawls(j)) =
                 IF w[j].use_selenium THEN Cardinality(browser_fetched) ELSE 0

C16_Witness ==
    \E j \in Started :
        /\ pc[j] = "done"
        /\ PageCount(j) >= MIN_DISCOVERED_PAGES_BEFORE_FALLBACK_CRAWL
        /\ DiscoveryCrawls(j) = {}
        /\ Cardinality(ExtractionCrawls(j)) = 2

\* C17: whatever the site and the budget n >= 0, neither crawler has harvested more
\* than n pages at any point of the crawl, and the list it returns holds at most n
\* records.
C17_BudgetRespected ==
    crawl.pc # "off" =>
        /\ crawl.max_pages_to_discover >= 0
        /\ crawl.processed_count <= crawl.max_pages_to_discover
        /\ Len(crawl.found_pages_details) <= crawl.max_pages_to_discover

\* a crawl returned a full list while URLs were still waiting
C17_Witness ==
    /\ crawl.pc = "returned"
    /\ crawl.max_pages_to_discover = MaxCrawlBudget
    /\ Len(crawl.found_pages_details) = crawl.max_pages_to_discover
    /\ crawl.queue # <<>>

\* C18: at every point of a crawl, every URL waiting in the queue and every URL of
\* the list of found pages is on the host of the root URL, whatever the links of the
\* fetched pages.
C18_SameOriginClosure ==
    crawl.pc # "off" =>
        \A u \in Range(crawl.queue) \cup Range(crawl.found_pages_details) :
            netloc(u) = netloc(crawl.base_url)

\* a crawl returned pages after it met links to another host
C18_Witness ==
    /\ crawl.pc = "returned"
    /\ crawl.variant \in KnowledgeCrawlers
    /\ "elsewhere" \in crawl.hosts_linked
    /\ Len(crawl.found_pages_details) >= 2

NoRepeats(s) == \A i, k \in 1 .. Len(s) : i # k => s[i] # s[k]
RequestedUrls(at) ==
    LET asked == SelectSeq(crawl.requested, LAMBDA r : r.at \in at)
    IN [i \in 1 .. Len(asked) |-> asked[i].url]
FrontierIsDeduplicated ==
    /\ NoRepeats(crawl.queue)
    /\ Range(crawl.queue) \cap crawl.visited_urls = {}
    /\ NoRepeats(crawl.dequeued)
    /\ NoRepeats(crawl.found_pages_details)

NestedIn(web, u) ==
    IF u \in XmlSitemaps /\ web[u].status = 200
    THEN {v \in Range(web[u].sitemap_locs) : EndsWithXml(v)} ELSE {}
\* the sitemaps that can be reached from those of from by following such entries
RECURSIVE ReachableSitemaps(_, _)
ReachableSitemaps(web, from) ==
    LET more == from \cup UNION {NestedIn(web, u) : u \in from}
    IN IF more = from THEN from ELSE ReachableSitemaps(web, more)
\* the served sitemaps on a cycle that the entry points of the call lead to
SitemapsOnCycle(r) ==
    {u \in ReachableSitemaps(r.web, Range(common_sitemaps) \cup Range(r.robots)) :
        u \in ReachableSitemaps(r.web, NestedIn(r.web, u))}

\* a document the call got lists a URL that urlparse rejects
GotUnparsableLoc(r) ==
    \E i \in 1 .. Len(r.got) :
        r.got[i].status = 200 /\ UnparsableLoc \in Range(r.got[i].url_locs)

\* C20: whatever the sitemaps of the site list, each other and themselves
\* included, find_sitemap_urls requests no more sitemaps than there are sitemap
\* URLs and ends, by returning unless a document lists a URL that urlparse rejects,
\* and what it returns holds the page of the site of every served sitemap on a
\* cycle that robots.txt or a conventional path leads to.
C20_SitemapCycleSafety ==
    /\ [](resolver.pc # "off" =>
            /\ Len(resolver.fetched) <= Cardinality(SitemapUrls)
            /\ resolver.pc = "raised" => GotUnparsableLoc(resolver)
            /\ resolver.pc = "returned" =>
                   \A u \in SitemapsOnCycle(resolver) : PageOf(u) \in resolver.final_page_urls)
    /\ <>(resolver.pc \in {"returned", "raised"})

\* the call returned the pages of two sitemaps that list each other, one of which
\* lists itself as well
C20_Witness ==
    /\ resolver.pc = "returned"
    /\ NestedXml \in NestedIn(resolver.web, SitemapXml)
    /\ {SitemapXml, NestedXml} \subseteq NestedIn(resolver.web, NestedXml)
    /\ {SitemapXml, NestedXml} \subseteq SitemapsOnCycle(resolver)
    /\ {PageOf(SitemapXml), PageOf(NestedXml)} \subseteq resolver.final_page_urls

\* the sitemap URLs that have entered the work queue so far, in the order they
\* leave it: those requested, the one being requested, those still waiting
EnqueuedSitemaps(r) ==
    (IF r.pc = "fetch" THEN Append(r.fetched, r.sitemap_url) ELSE r.fetched)
        \o r.sitemap_paths_to_check
\* the number of sitemaps, robots.txt lines and conventional paths that name u
TimesNamed(r, u) ==
    Cardinality({v \in XmlSitemaps : u \in NestedIn(r.web, v) /\ v \in Range(r.fetched)})
      + Cardinality({i \in 1 .. Len(r.robots) : r.robots[i] = u})
      + Cardinality({i \in 1 .. Len(common_sitemaps) : common_sitemaps[i] = u})

\* C21: during one call of find_sitemap_urls no sitemap URL enters the work queue
\* twice, so none is requested twice, whether robots.txt, a conventional path or
\* another sitemap names it; every URL in the queue is marked as processed.
C21_SitemapFetchedAtMostOnce ==
    resolver.pc # "off" =>
        /\ NoRepeats(EnqueuedSitemaps(resolver))
        /\ NoRepeats(resolver.fetched)
        /\ Range(EnqueuedSitemaps(resolver)) \subseteq resolver.processed_sitemap_urls

\* the call returned after robots.txt named a conventional path, and after one
\* nested sitemap was named by robots.txt (twice) and by two served sitemaps
C21_Witness ==
    /\ resolver.pc = "returned"
    /\ TimesNamed(resolver, SitemapXml) >= 2
    /\ TimesNamed(resolver, NestedXml) >= 4
    /\ SitemapXml \in Range(resolver.robots)
    /\ \A u \in {SitemapXml, NestedXml} :
          Cardinality({i \in 1 .. Len(resolver.fetched) : resolver.fetched[i] = u}) = 1

\* the response the call got for sitemap u (Missing while u was not requested)
ResponseTo(r, u) ==
    IF \E i \in 1 .. Len(r.fetched) : r.fetched[i] = u
    THEN r.got[CHOOSE i \in 1 .. Len(r.fetched) : r.fetched[i] = u]
    ELSE Missing
\* the <sitemap> entries of the document served for u, whatever their suffix
NestedEntries(r, u) ==
    LET response == ResponseTo(r, u)
    IN IF response.status = 200 /\ response.well_formed
       THEN Range(response.sitemap_locs) ELSE {}
\* the sitemaps reachable from robots.txt and the conventional paths by following
\* <sitemap> entries
RECURSIVE ReachableByEntries(_, _)
ReachableByEntries(r, from) ==
    LET more == from \cup UNION {NestedEntries(r, u) : u \in from}
    IN IF more = from THEN from ELSE ReachableByEntries(r, more)
\* the page URLs those sitemaps list
ListedPageUrls(r) ==
    UNION {LET response == ResponseTo(r, u)
           IN IF response.status = 200 /\ response.well_formed
              THEN Range(response.url_locs) ELSE {} :
           u \in ReachableByEntries(r, Range(common_sitemaps) \cup Range(r.robots))}

\* C22: find_sitemap_urls returns exactly the page URLs listed in the sitemaps
\* that robots.txt and the conventional paths lead to through nested sitemap
\* entries, and no sitemap URL.
C22_ResolverReturnsExactlyListedPages ==
    resolver.pc = "returned" =>
        /\ resolver.final_page_urls \cap SitemapUrls = {}
        /\ resolver.final_page_urls = ListedPageUrls(resolver)

\* the pages of the site that the documents the call got list
PagesGot(r) ==
    UNION {IF r.got[i].status = 200
           THEN {u \in Range(r.got[i].url_locs) : OnBaseNetloc(u)} ELSE {} :
           i \in 1 .. Len(r.got)}

\* C23: find_sitemap_urls never raises; a robots.txt or a sitemap that cannot be
\* fetched or parsed is skipped, every sitemap that was queued is still requested,
\* and the pages listed before and after the failure are all returned.
C23_ResolverNeverRaises ==
    /\ resolver.pc # "raised"
    /\ resolver.pc = "returned" =>
          /\ resolver.processed_sitemap_urls = Range(resolver.fetched)
          /\ PagesGot(resolver) \subseteq resolver.final_page_urls

\* ----------------------------------------------------------------- C24..C30
\* the discovery strategy a record's status names
OriginOf(status) ==
    CASE status = "lang_detect_fetch" -> "seed"
      [] status \in {"sitemap_found", "sitemap_title_fetched"} -> "sitemap"
      [] status = "found_by_probe" -> "probe"
      [] OTHER -> "fallback_crawl"

WithoutQueryAndFragment(u) == IF u = AboutWithQuery THEN ProbeCandidate ELSE u

\* C24: at every point of a discovery run the aggregate map holds at most one
\* record per URL once query and fragment are stripped.
C24_OneRecordPerNormalizedUrl ==
    discovery.pc # "off" =>
        \A u, v \in DOMAIN discovery.all_discovered_pages_map :
            WithoutQueryAndFragment(u) = WithoutQueryAndFragment(v) => u = v

\* C25: when a strategy reports a URL the map already holds, the record takes the
\* reported html if it had none and the reported title if it had none, each on its
\* own, and keeps the html and the title it had.
C25_MergeAdoptsWhatIsMissing ==
    [][discovery.pc # "off" =>
        \A p \in discovery'.reported :
            p.url \in DOMAIN discovery.all_discovered_pages_map =>
                LET old == discovery.all_discovered_pages_map[p.url]
                    new == discovery'.all_discovered_pages_map[p.url]
                IN /\ new.html_source =
                        IF old.html_source = "none" THEN p.html_source ELSE old.html_source
                   /\ new.title = IF old.title = "N/A" THEN p.title ELSE old.title]_vars

\* C27: a crawl that started a browser has called quit() on it by the time it has
\* returned or raised, on every way out; the browser is gone unless quit() itself
\* raised, and while the crawl still runs its browser has not been quit.
C27_BrowserIsQuitOnEveryExit ==
    crawl.pc # "off" /\ crawl.variant \in BrowserCrawlers =>
        /\ crawl.pc \in {"returned", "raised"} => crawl.driver # "live"
        /\ crawl.pc \in {"loop", "fetch", "finally"} => crawl.driver = "live"
        /\ crawl.pc = "raised" /\ ~crawl.escaping /\ crawl.driver # "None" =>
              crawl.driver = "quit_failed" /\ crawl.variant = "grand_spider_selenium"

\* the browser was started, an exception left the try, and the browser was quit
\* before the exception left the crawl
C27_Witness ==
    /\ crawl.pc = "raised" /\ crawl.variant = "selenium" /\ crawl.escaping
    /\ crawl.driver = "quit"

\* C28: a link made absolute against its page and stripped of query and fragment
\* has neither, and comes back unchanged when it is made absolute against any page
\* of the site and stripped again.
C28_NormalizationIsIdempotent ==
    /\ norm.pc \in {"once", "twice"} =>
          norm.once.query = "" /\ norm.once.fragment = ""
    /\ norm.pc = "twice" => norm.twice = norm.once

\* a relative link with dot segments, a query and a fragment went through twice
C28_Witness ==
    /\ norm.pc = "twice"
    /\ norm.href = Url("", "", <<"..", "b">>, "q=1", "top")
    /\ norm.once = Url("https", "site", <<"", "b">>, "", "")
    /\ norm.current_url.path # <<"", "">>

\* the title threads that were started and have not ended
AliveTitleThreads == {t \in DOMAIN titles.thread : titles.thread[t] \notin {"unstarted", "ended"}}
StartedTitleThreads == {t \in DOMAIN titles.thread : titles.thread[t] # "unstarted"}

\* C30: in fetch_titles_for_urls at most MAX_TITLE_FETCH_THREADS title threads are
\* alive at any time, a thread that appends holds results_lock, and at the return
\* every started thread has been joined and the list holds exactly one entry for
\* each URL whose fetch succeeded.
C30_TitleFetchIsBoundedAndJoined ==
    titles.pc # "off" =>
        /\ Cardinality(AliveTitleThreads) <= MAX_TITLE_FETCH_THREADS
        /\ Cardinality(StartedTitleThreads \ titles.joined) <= MAX_TITLE_FETCH_THREADS
        /\ \A t \in DOMAIN titles.thread :
              titles.thread[t] = "locked" => titles.results_lock = t
        /\ titles.pc = "returned" =>
              /\ titles.joined = StartedTitleThreads
              /\ AliveTitleThreads = {}
              /\ NoRepeats(titles.pages_with_titles)
              /\ Range(titles.pages_with_titles) =
                    {titles.urls_to_process_for_title[t] : t \in titles.succeeded}

\* seven threads ran in two batches, all were joined, and the titles of the second
\* batch came in before one of the first
C30_Witness ==
    /\ titles.pc = "returned"
    /\ Cardinality(titles.joined) = 7
    /\ titles.pages_with_titles = <<"site/t2", "site/t1", "site/t7">>


\* what belongs to job k: its registry entry, the locals and the position of its
\* worker, and what its worker has written and called
OwnedBy(k) ==
    <<IF k \in Started THEN jobs[k] ELSE Absent, pc[k], w[k], statusLog[k], calls[k]>>

\* the entry of job a says what the entry of job b says, the id aside
SameOutcome(a, b) ==
    /\ [jobs[a] EXCEPT !.id = b] = jobs[b]
    /\ statusLog[a] = statusLog[b]
    /\ calls[a] = calls[b]
    /\ w[a] = w[b]

\* C29: with several jobs running, a step of the worker of job j changes nothing
\* that belongs to another job k (registry entry, locals, position, writes, calls),
\* and a job given the same request and the same answers as a job that ran alone
\* finishes wherever that job finished, with the same status, result and error.
C29_JobsAreIsolated ==
    /\ [][\A j \in FleetIds :
            pc'[j] # pc[j] => \A k \in FleetIds \ {j} : OwnedBy(k)' = OwnedBy(k)]_vars
    /\ [](heard # HeardOff /\ pc[FleetReplay] \notin {"none", "done"}
            /\ jobs_lock \in {"free", FleetReplay}
          => ENABLED Worker(FleetReplay))
    /\ [](heard # HeardOff /\ pc[FleetReplay] = "done"
          => /\ heard.pos = Len(heard.script)
             /\ SameOutcome(FleetReplay, FleetAlone))

\* the replayed job has finished, with a result or with a failure, while the job
\* started next to it was in the middle of its run
C29_Witness ==
    /\ heard # HeardOff
    /\ pc[FleetReplay] = "done"
    /\ jobs[FleetReplay].status \in {"completed", "failed"}
    /\ Len(statusLog[FleetReplay]) > 2
    /\ pc[FleetNeighbour] \notin {"none", "done"}
    /\ Len(statusLog[FleetNeighbour]) > 1

\* ------------------------------------------------------------ claims C31..C40
\* the call of selenium_crawl_website that job j has just made raised
BrowserCallRaised(j) ==
    /\ calls'[j] # calls[j]
    /\ Last(calls'[j]).fn = "selenium_crawl_website"
    /\ Last(calls'[j]).raised

\* C31: a failure to start the browser leaves selenium_crawl_website as an exception.
\* In the fallback discovery crawl it takes the job to its handler and the job ends
\* failed with the error recorded and no later stage run; in the fetch of one page
\* during extraction it is written into that page's record as a failed extraction,
\* the job is not failed by it and every selected page is still handled.
C31_BrowserFailureFailsCrawlOrPage ==
    /\ [][\A j \in Started :
            BrowserCallRaised(j) =>
               IF pc[j] = "L605"
               THEN /\ pc'[j] = "L684"
                    /\ w'[j].job_failed
               ELSE /\ pc[j] = "L647" /\ pc'[j] = "L667"
                    /\ w'[j].extraction_status_update =
                         [url |-> CurrentPage(j).url, status |-> "failed_extraction",
                          error |-> "Live fetch failed"]
                    /\ w'[j].job_failed = w[j].job_failed
                    /\ w'[j].extracted_knowledge_chunks = w[j].extracted_knowledge_chunks]_vars
    /\ [](\A j \in Started :
            (/\ pc[j] = "done"
             /\ \E k \in DiscoveryCrawls(j) :
                   calls[j][k].raised /\ calls[j][k].fn = "selenium_crawl_website") =>
               /\ jobs[j].status = "failed"
               /\ Truthy(jobs[j].error)
               /\ jobs[j].error \in {w[j].error_message, MsgUnknownError}
               /\ calls[j][Len(calls[j])].fn = "selenium_crawl_website"
               /\ jobs[j].knowledge_extraction_details = <<>>)
    /\ [](\A j \in Started :
            (/\ ExtractionEnded(j)
             /\ \E k \in ExtractionCrawls(j) : calls[j][k].raised) =>
               LET details_list == jobs[j].knowledge_extraction_details
               IN /\ Len(details_list) = Len(w[j].selected_pages_for_processing_info)
                  /\ \E k \in 1..Len(details_list) :
                        /\ details_list[k].status = "failed_extraction"
                        /\ details_list[k].error = "Live fetch failed"
                  /\ (pc[j] = "done" /\ RaisedToHandler(j) = {}) =>
                        (jobs[j].status = "completed" <=>
                            ExtractedRecords(details_list) # <<>>))

\* the browser failed on the first of two selected pages, the second was extracted
\* and the job completed
C31_Witness ==
    \E j \in Started :
        /\ pc[j] = "done"
        /\ jobs[j].status = "completed"
        /\ Len(jobs[j].knowledge_extraction_details) = 2
        /\ jobs[j].knowledge_extraction_details[1].error = "Live fetch failed"
        /\ jobs[j].knowledge_extraction_details[2].status = "extracted"
        /\ \E k \in ExtractionCrawls(j) : calls[j][k].raised

\* C32: a submission answered 202 has put the record into the registry, with
\* status pending, before its worker thread was started; no step removes a record;
\* so a poll of an accepted job id is never answered 404 and the worker finds the
\* record, still pending, at its first write.
C32_AcceptedJobIsRegisteredBeforeItsWorker ==
    /\ [][\A j \in JobIds :
            /\ j \in Started => j \in DOMAIN jobs'
            /\ (pc[j] = "none" /\ pc'[j] # "none") =>
                  j \in Started /\ jobs[j].status = "pending"]_vars
    /\ [](\A j \in JobIds :
            /\ pc[j] # "none" => j \in Started
            /\ pc[j] = "L572" => jobs[j].status = "pending"
            /\ j \in submit.accepted =>
                  /\ j \in Started
                  /\ pc[j] # "none"
                  /\ ~ENABLED PollNotFound(j))

\* 202 has been answered while the worker, already running, has made its first write
C32_Witness ==
    \E j \in submit.accepted :
        /\ pc[j] \notin {"none", "L572"}
        /\ Polled(j)
        /\ PollResponse.code = 200

\* C33: in a crawl by the HTTP crawler the first URL taken from the queue is the
\* root URL and the first record of the list is the root's, whatever the pages
\* link to.
C33_HttpCrawlStartsWithRoot ==
    (crawl.pc # "off" /\ crawl.variant = "simple") =>
        LET root == {crawl.base_url, StripQueryAndFragment(crawl.base_url)}
        IN /\ crawl.dequeued # <<>> => crawl.dequeued[1] \in root
           /\ crawl.found_pages_details # <<>> => crawl.found_pages_details[1] \in root

\* the crawl loop of lines 276-300 and 317-343 is running
InCrawlLoop(c) == c.pc \in {"loop", "fetch"}

\* C34: both crawlers of grand_spider_knowledge.py end on every site, and their
\* loop is left only with the budget reached or the queue empty.
C34_CrawlEndsAtBudgetOrEmptyFrontier ==
    /\ <>(crawl.pc \in {"returned", "raised"})
    /\ [][(/\ crawl.variant \in KnowledgeCrawlers
           /\ InCrawlLoop(crawl) /\ ~InCrawlLoop(crawl')) =>
              \/ crawl.queue = <<>>
              \/ ~WithinBudget(crawl.processed_count, crawl.max_pages_to_discover)]_vars

\* C35: for a candidate URL the map held when probe_core_pages was called, the
\* probe keeps the one record (never a found_by_probe record in its place, never an
\* entry of the returned list), fetches the page only if the record had no html,
\* and after a failed fetch leaves the whole map as it was and goes on with the
\* next slug, so that every slug has been tried at the return.
C35_ProbeKeepsKnownCandidates ==
    /\ [](probe.pc # "off" =>
            /\ \A u \in DOMAIN probe.given :
                  /\ u \in DOMAIN probe.existing_pages_map
                  /\ probe.existing_pages_map[u].status = probe.given[u].status
                  /\ \A k \in 1..Len(probe.probed_pages_details_newly_found) :
                        probe.probed_pages_details_newly_found[k].url # u
                  /\ u \in Range(probe.requested) => probe.given[u].html_source = "none"
                  /\ probe.given[u].html_source # "none" =>
                        probe.existing_pages_map[u] = probe.given[u]
            /\ probe.pc = "L261" => probe.tried = unique_paths)
    /\ [][(probe.pc = "L246" /\ probe'.fetched # "html") =>
              /\ probe'.existing_pages_map = probe.existing_pages_map
              /\ probe'.probed_pages_details_newly_found =
                    probe.probed_pages_details_newly_found
              /\ probe'.pc = "L241"
              /\ probe'.paths = probe.paths]_vars

\* the fetch of a known page without html failed, the record is as it was, and the
\* probe has gone on to find a page by a later slug
C35_Witness ==
    /\ probe.pc = "L261"
    /\ "about" \in DOMAIN probe.given
    /\ probe.requested # <<>> /\ probe.requested[1] = "about"
    /\ probe.fetched = "html"
    /\ probe.existing_pages_map["about"] = probe.given["about"]
    /\ probe.given["about"].html_source = "none"
    /\ Len(probe.probed_pages_details_newly_found) > 0

\* the selection of job j has been made
SelectionMade(j) == ReturnedCallsOf(j, "select_relevant_pages_for_kb_with_openai") # {}

Handled(j) == IF pc[j] \in {"L643", "L645", "L647", "L667", "L673"} THEN w[j].i - 1 ELSE w[j].i
\* the loop of line 640 stands between two pages, or has been left
BetweenPages(j) == pc[j] \notin {"L645", "L647", "L667", "L673"}

\* C37: once the extraction loop has handled k selected pages,
\* knowledge_extraction_details holds exactly k records, the n-th being the record of
\* the n-th selected page, none of them pending_extraction, and the records with
\* status extracted are as many as intermediate_knowledge_chunks_count says; a URL
\* selected more than once has one record per selection.
C37_OneSettledRecordPerHandledPage ==
    \A j \in Started :
        BetweenPages(j) =>
            LET d == jobs[j].knowledge_extraction_details
                sel == w[j].selected_pages_for_processing_info
            IN /\ Len(d) = Handled(j)
               /\ \A n \in 1..Len(d) :
                     /\ d[n].url = sel[n].url
                     /\ d[n].status \in {"extracted", "failed_extraction"}
               /\ Len(ExtractedRecords(d)) = jobs[j].intermediate_knowledge_chunks_count

\* a job whose selection names one URL twice has handled both selections, one of
\* them extracted and the other failed
C37_Witness ==
    \E j \in Started :
        LET d == jobs[j].knowledge_extraction_details
            sel == w[j].selected_pages_for_processing_info
        IN /\ ExtractionEnded(j)
           /\ Len(sel) = 2 /\ sel[1].url = sel[2].url
           /\ Len(d) = 2
           /\ d[1].status = "failed_extraction" /\ d[2].status = "extracted"
           /\ jobs[j].intermediate_knowledge_chunks_count = 1

\* the tokens returned by the calls of the sequence that returned: prompt tokens for
\* c = 1, completion tokens for c = 2
RECURSIVE TokensReturned(_, _)
TokensReturned(records, c) ==
    IF records = <<>> THEN 0
    ELSE (IF Head(records).raised THEN 0 ELSE Head(records).usage[c])
         + TokensReturned(Tail(records), c)

\* C38: a job record's total_prompt_tokens and total_completion_tokens never
\* decrease, and whenever the record's status is completed or failed they are the
\* sums of the prompt and completion tokens returned by the job's collaborator calls
\* that returned.
C38_TokenTotalsAreTheSumsWhenTerminal ==
    /\ [][\A j \in Started :
            /\ jobs'[j].total_prompt_tokens >= jobs[j].total_prompt_tokens
            /\ jobs'[j].total_completion_tokens >= jobs[j].total_completion_tokens]_vars
    /\ [](\A j \in Started :
            jobs[j].status \in Terminal =>
                /\ jobs[j].total_prompt_tokens = TokensReturned(calls[j], 1)
                /\ jobs[j].total_completion_tokens = TokensReturned(calls[j], 2))

\* C39: once line 616 has written crawler_used, the field names a fallback crawler
\* exactly when the job invoked a fallback crawl, the one it names being the one
\* invoked, and names sitemap_probe_only exactly when the job invoked none.
C39_CrawlerUsedTellsWhetherFallbackRan ==
    \A j \in Started :
        DiscoveryEnded(j) =>
            /\ jobs[j].crawler_used = "sitemap_probe_then_sitemap_probe_only"
                  <=> DiscoveryCrawls(j) = {}
            /\ jobs[j].crawler_used = "sitemap_probe_then_selenium_fallback"
                  <=> \E k \in DiscoveryCrawls(j) : calls[j][k].fn = "selenium_crawl_website"
            /\ jobs[j].crawler_used = "sitemap_probe_then_simple_fallback"
                  <=> \E k \in DiscoveryCrawls(j) : calls[j][k].fn = "simple_crawl_website"

\* C40: a status poll that answers completed or failed answers with finished_at set,
\* with the progress "Job finished." and with the token totals the job ended with;
\* no poll answers failed with finished_at unset.
C40_TerminalStatusComesWithFinalFields ==
    \A j \in Started :
        (Polled(j) /\ PollResponse.status \in Terminal) =>
            /\ PollResponse.finished_at
            /\ PollResponse.progress = Progress("Job finished.", 0)
            /\ PollResponse.total_prompt_tokens = w[j].total_prompt_tokens
            /\ PollResponse.total_completion_tokens = w[j].total_completion_tokens
====
